---- MODULE Spec2Model ----
(***************************************************************************)
(* Replicate Operator: the Recording Controller of background.js           *)
(* (src/unnamed/part_000).  The service worker is a single-threaded event  *)
(* loop: every action below is one turn of that loop, i.e. one message     *)
(* listener call, one timer callback, or the part of an async function     *)
(* between two awaits.                                                     *)
(*                                                                         *)
(* Ghost state (not in the code, used only to state properties):           *)
(*   origin    for each element of recordedSteps, the tab whose report     *)
(*             produced it (NoTab for a goto or a wait)                    *)
(*   lastReportAt  Date.now() of the last report accepted into the current *)
(*             recordedSteps array, 0 when there is none                   *)
(*   epoch     the number of sessions created so far                       *)
(*   ev        what the last turn of the event loop was                    *)
(*   sent      the chrome.runtime.sendMessage calls of the last turn       *)
(***************************************************************************)
EXTENDS Integers, Sequences, FiniteSets, TLC

\* ------------------------------------------------------------------ bounds
NumTabs    == 2      \* tabs 1..NumTabs exist when the model starts
MaxSteps   == 4      \* longest recordedSteps the model builds
MaxStarts  == 2      \* sessions created plus tab queries still pending
MaxSaves   == 1      \* stopRecordingAndSave requests that pass the isRecording test
Epoch      == 1000   \* Date.now() when the model starts
MaxElapsed == 101    \* the clock stops advancing at Epoch + MaxElapsed

\* ------------------------------------------------------- program constants
WaitThreshold == 100 \* part_000:121  now - lastActionTimestamp > 100
NoTab         == 0   \* part_000:8    recordingTabId = null

Tabs   == 1..NumTabs
Names  == {"f1", "f2"}                \* flow names the side panel sends
Urls   == {"https://x/form"}          \* tab.url of the foreground tab
Deltas == {100, 101}                  \* clock advances between two turns

\* The action object the content script sends for a click (part_003:73-77).
ClickAction == [type |-> "click", selector |-> "#submit", label |-> "Send"]

\* The reports the model lets a tab send: a click seen by the observer of
\* frame 1 of the tab.
Reports == { [frameId |-> 1, action |-> ClickAction] }

ActionTypes == {"click", "change"}

VARIABLES
  isRecording,          \* part_000:5
  recordedSteps,        \* part_000:6
  lastActionTimestamp,  \* part_000:7
  recordingTabId,       \* part_000:8
  flows,                \* chrome.storage.local key 'flows': name -> steps
  now,                  \* Date.now()
  openTabs,             \* tabs not yet removed
  startsPending,        \* handleStartRecording calls awaiting chrome.tabs.query
  saves,                \* handleStopRecordingAndSave calls in progress
  timers,               \* pending setTimeout(resetState) callbacks, oldest first
  nSave,                \* requests counted against MaxSaves
  origin, lastReportAt, epoch, ev, sent,
  \* handleRunFlow (part_000:175-249), one call of it:
  pc,                   \* where the call is suspended, "idle" before the request
  runName,              \* its argument
  flowSteps,            \* const steps = savedFlows[flowName]
  stepIndex,            \* position of the for-of loop in flowSteps (1-based)
  runTab,               \* the tab of chrome.tabs.create: "none", then "loading"
                        \* or "complete", at last "closed"
  listener,             \* the closure is registered in chrome.tabs.onUpdated
  executors,            \* frames of the tab's document that run replay_script.js
  errorMessage,         \* error.message of the caught error
  delayMs,              \* delay of the run's pending setTimeout, 0 when none
  alerts,               \* what alert() has shown to the user, oldest first
  logs,                 \* console output of log(), oldest first
  dispatched,           \* ghost: indices of steps, in the order the loop took them
  delivered,            \* ghost: per executeSingleStep message, who received it
  executions,           \* ghost: times the listener passed its test
  \* main frame of the recording tab, and injectScriptWithCheck
  \* (part_001:116-136):
  observer,             \* the file shipped as content_script.js
  replayListener,       \* replay_script.js listens in the frame
  guard,                \* window.replicateOperatorInjected / ...HasRun
  listenerSets,         \* sets of event listeners the observer has added
  instantiations,       \* times the content script ran in this document
  ppc,                  \* per call of injectScriptWithCheck: where it is
  reply,                \* per call: outcome of its ping
  injected,             \* per call: executeScript calls it has made
  clicks,               \* ghost: pointer clicks of the user in the frame
  clickReports,         \* ghost: click reports sent for them
  \* the observer's handlers in one document:
  elValue,              \* per editable element: its .value
  focus,                \* document.activeElement if editable, else "none"
  lastRecordedValue,    \* part_003:43, the Map
  pending,              \* content_script.js:24-31, target of the debounce
                        \* timer, "none" when no timer is set
  outbox,               \* the actions handed to sendMessage, oldest first
  edits,                \* ghost: input events on the focused element since
                        \* it got the focus
  flushes,              \* ghost: calls of recordInputChange
  \* waitForElement (part_002:30-45), one call of it:
  interval,             \* the setInterval callback is registered
  outcome,              \* "none" before the call, "pending", then how the
                        \* promise was settled
  elapsed,              \* Date.now() - startTime as the last poll read it
  present,              \* document.querySelector(selector) finds an element
  polls,                 \* ghost: runs of the interval callback
  \* executeStep (part_002:49-71), one call of it:
  el,                   \* the element the selector resolves to
  execStep,             \* its argument
  events,               \* what was dispatched on the element, oldest first
  execResult,            \* "none", then "success" or the error's message
  \* handleDeleteFlow (part_000:261-266):
  deletes,              \* its calls in progress
  nDelete,              \* requests counted against MaxDeletes
  storeLog,              \* ghost: the saves and deletes that have ended
  \* getSelector (part_003:13-40) and document.querySelector:
  doc,                  \* the elements under body, in document order
  target,               \* the element getSelector is called with
  selector,             \* its result, a sequence of tokens
  branch,               \* ghost: the return statement that produced it
  found                 \* what querySelector(selector) returned, once called

vars == << isRecording, recordedSteps, lastActionTimestamp, recordingTabId,
           flows, now, openTabs, startsPending, saves, timers, nSave,
           origin, lastReportAt, epoch, ev, sent,
           pc, runName, flowSteps, stepIndex, runTab, listener, executors,
           errorMessage, delayMs, alerts, logs, dispatched, delivered,
           executions,
           observer, replayListener, guard, listenerSets, instantiations,
           ppc, reply, injected, clicks, clickReports,
           elValue, focus, lastRecordedValue, pending, outbox, edits,
           flushes,
           interval, outcome, elapsed, present, polls,
           el, execStep, events, execResult,
           deletes, nDelete, storeLog,
           doc, target, selector, branch, found >>

ghosts == << origin, lastReportAt, epoch >>

session == << isRecording, recordedSteps, lastActionTimestamp, recordingTabId >>

rvars == << pc, runName, flowSteps, stepIndex, runTab, listener, executors,
            errorMessage, delayMs, alerts, logs, dispatched, delivered,
           executions >>

\* The main frame of the recording tab and the calls of
\* injectScriptWithCheck.
ivars == << observer, replayListener, guard, listenerSets, instantiations,
            ppc, reply, injected, clicks, clickReports >>

\* The observer's handlers and the document they watch.
ovars == << elValue, focus, lastRecordedValue, pending, outbox, edits,
            flushes >>

\* One call of waitForElement and the document it polls.
pvars == << interval, outcome, elapsed, present, polls >>

\* One call of executeStep and the element it acts on.
xvars == << el, execStep, events, execResult >>

\* The calls of handleDeleteFlow, and the store operations that have ended.
dvars == << deletes, nDelete, storeLog >>

\* One call of getSelector and one query with its result.
svars == << doc, target, selector, branch, found >>

\* The components beside the Recording Controller and the run.
fvars == << ivars, ovars, pvars, xvars, dvars, svars >>

\* The page's editable elements (INPUT), by selector, and a button.
Editables == {"#a", "#b"}
Button == "#btn"
Targets == Editables \cup {Button}

\* The strings the user types into an element.
Values == {"", "A", "Ad"}

\* lastRecordedValue.get(target) of an element the Map does not hold
Undefined == "undefined"

NumProcs == 2

\* The calls of injectScriptWithCheck that may be in progress together: one
\* from handleStartRecording, one from chrome.tabs.onUpdated.
Procs == 1..NumProcs

\* A fresh document without content script, no call in progress.
NoInject ==
  /\ observer = "content_script.js"
  /\ replayListener = FALSE
  /\ guard = FALSE
  /\ listenerSets = 0
  /\ instantiations = 0
  /\ ppc = [p \in Procs |-> "idle"]
  /\ reply = [p \in Procs |-> "unsent"]
  /\ injected = [p \in Procs |-> 0]
  /\ clicks = 0
  /\ clickReports = 0

\* A document with empty fields, nothing focused, nothing reported.
NoObserver ==
  /\ elValue = [e \in Editables |-> ""]
  /\ focus = "none"
  /\ lastRecordedValue = [e \in Editables |-> Undefined]
  /\ pending = "none"
  /\ outbox = <<>>
  /\ edits = 0
  /\ flushes = 0

\* waitForElement has not been called.
NoPoll ==
  /\ interval = FALSE
  /\ outcome = "none"
  /\ elapsed = 0
  /\ present = FALSE
  /\ polls = 0

\* executeStep has not been called.
NoExec ==
  /\ el = [value |-> "old", isContentEditable |-> FALSE, innerText |-> ""]
  /\ execStep = [type |-> "click", selector |-> "#step"]
  /\ events = <<>>
  /\ execResult = "none"

\* No deleteFlow request has been made.
NoDelete ==
  /\ deletes = {}
  /\ nDelete = 0
  /\ storeLog = <<>>

\* An empty body; getSelector has not been called.
NoSelector ==
  /\ doc = <<>>
  /\ target = 0
  /\ selector = << >>
  /\ branch = "none"
  /\ found = << >>

\* None of these components has started.
NoFrames == NoInject /\ NoObserver /\ NoPoll /\ NoExec /\ NoDelete /\ NoSelector

\* No call of handleRunFlow has been made.
NoRun ==
  /\ pc = "idle"
  /\ runName = ""
  /\ flowSteps = <<>>
  /\ stepIndex = 0
  /\ runTab = "none"
  /\ listener = FALSE
  /\ executors = {}
  /\ errorMessage = ""
  /\ delayMs = 0
  /\ alerts = <<>>
  /\ logs = <<>>
  /\ dispatched = <<>>
  /\ delivered = <<>>
  /\ executions = 0

\* ------------------------------------------------------------------ helpers
EmptyFlows == [n \in {} |-> <<>>]     \* result.flows || {}

OldFlow == << [type |-> "goto", url |-> "https://old/", frameId |-> 0] >>

\* Mutant of WithFrameId: { frameId: sender.frameId, ...action }, a frameId
\* field of the reported action wins.
WithFrameId_ActionWins(action, frameId) ==
  [k \in DOMAIN action \cup {"frameId"} |->
     IF k \in DOMAIN action THEN action[k] ELSE frameId]

\* { ...action, frameId: sender.frameId }
WithFrameId(action, frameId) ==
  [k \in DOMAIN action \cup {"frameId"} |->
     IF k = "frameId" THEN frameId ELSE action[k]]

\* savedFlows[flowName] = recordedSteps
WithFlow(savedFlows, flowName, steps) ==
  [k \in DOMAIN savedFlows \cup {flowName} |->
     IF k = flowName THEN steps ELSE savedFlows[k]]

GotoStep(url) == [type |-> "goto", url |-> url, frameId |-> 0]
WaitStep(d)   == [type |-> "wait", duration |-> d]

StateChanged(rec, steps) ==
  [type |-> "recordingStateChanged", isRecording |-> rec, steps |-> steps]
LiveSteps(steps) == [type |-> "updateLiveSteps", steps |-> steps]
FlowsUpdated     == [type |-> "flowsUpdated"]

Event(op, hit, sess) == [op |-> op, hit |-> hit, sess |-> sess]

\* ---------------------------------------------------------------- initial
Init ==
  /\ isRecording = FALSE
  /\ recordedSteps = <<>>
  /\ lastActionTimestamp = 0
  /\ recordingTabId = NoTab
  /\ flows = ("f1" :> OldFlow)
  /\ now = Epoch
  /\ openTabs = Tabs
  /\ startsPending = 0
  /\ saves = {}
  /\ timers = <<>>
  /\ nSave = 0
  /\ origin = <<>>
  /\ lastReportAt = 0
  /\ epoch = 0
  /\ ev = Event("init", FALSE, 0)
  /\ sent = <<>>
  /\ NoRun
  /\ NoFrames

\* Date.now() advances between two turns of the event loop.
Tick ==
  /\ \E d \in Deltas : now + d <= Epoch + MaxElapsed /\ now' = now + d
  /\ ev' = Event("tick", FALSE, epoch)
  /\ sent' = <<>>
  /\ UNCHANGED << session, flows, openTabs, startsPending, saves, timers,
                  nSave, ghosts >>

\* ------------------------------------------------------------ resetState
\* Mutant of resetState: the recordingStateChanged message is not sent.
resetState_Silent ==
  /\ isRecording' = FALSE
  /\ recordedSteps' = <<>>
  /\ recordingTabId' = NoTab
  /\ lastActionTimestamp' = 0
  /\ origin' = <<>>
  /\ lastReportAt' = 0
  /\ sent' = << FlowsUpdated >>

resetState ==
  /\ isRecording' = FALSE
  /\ recordedSteps' = <<>>
  /\ recordingTabId' = NoTab
  /\ lastActionTimestamp' = 0
  /\ origin' = <<>>
  /\ lastReportAt' = 0
  /\ sent' = << StateChanged(FALSE, <<>>), FlowsUpdated >>

\* A session exists: its flag is set or its steps are not yet cleared.
Live == isRecording \/ recordedSteps # <<>>

\* ------------------------------------- listener for content scripts (49-60)
\* Mutants of Accepts: the test without one of its two conjuncts.
Accepts_NoFlag(tab) == tab = recordingTabId
Accepts_AnyTab(tab) == isRecording

\* if (isRecording && sender.tab.id === recordingTabId)
Accepts(tab) == isRecording /\ tab = recordingTabId

\* Mutant of NeedsWait: the threshold is included.
NeedsWait_Inclusive(t) == t - lastActionTimestamp >= WaitThreshold

\* if (now - lastActionTimestamp > 100)
NeedsWait(t) == t - lastActionTimestamp > WaitThreshold

\* Mutant of handleRecordAction: the side panel is sent the sequence as it
\* was before the pushes.
handleRecordAction_StaleUpdate(action, tab, frameId) ==
  LET t     == now
      wait  == IF t - lastActionTimestamp > WaitThreshold
                 THEN << WaitStep(t - lastActionTimestamp) >> ELSE <<>>
      step  == WithFrameId(action, frameId)
      steps == recordedSteps \o wait \o << step >>
  IN  /\ Len(steps) <= MaxSteps
      /\ recordedSteps' = steps
      /\ lastActionTimestamp' = t
      /\ sent' = << LiveSteps(recordedSteps) >>
      /\ origin' = origin \o [i \in 1..Len(wait) |-> NoTab] \o << tab >>
      /\ lastReportAt' = t
      /\ UNCHANGED << isRecording, recordingTabId >>

\* handleRecordAction(action, sender), sender = {tab, frameId}
handleRecordAction(action, tab, frameId) ==
  LET t     == now
      wait  == IF NeedsWait(t)
                 THEN << WaitStep(t - lastActionTimestamp) >> ELSE <<>>
      step  == WithFrameId(action, frameId)
      steps == recordedSteps \o wait \o << step >>
  IN  /\ Len(steps) <= MaxSteps
      /\ recordedSteps' = steps
      /\ lastActionTimestamp' = t
      /\ sent' = << LiveSteps(steps) >>
      /\ origin' = origin \o [i \in 1..Len(wait) |-> NoTab] \o << tab >>
      /\ lastReportAt' = t
      /\ UNCHANGED << isRecording, recordingTabId >>

\* A recordAction message from frame frameId of tab arrives.
OnRecordAction(tab, frameId, action) ==
  /\ tab \in openTabs
  /\ IF Accepts(tab)
       THEN handleRecordAction(action, tab, frameId)
       ELSE /\ sent' = <<>>
            /\ UNCHANGED << session, origin, lastReportAt >>
  /\ ev' = Event("recordAction", Accepts(tab), epoch)
  /\ UNCHANGED << flows, now, openTabs, startsPending, saves, timers,
                  nSave, epoch >>

\* ------------------------------------------- handleStartRecording (100-116)
\* if (isRecording) return;
StartGuard == ~isRecording

\* The startRecording request: the part before await chrome.tabs.query.
StartRequest ==
  /\ IF StartGuard
       THEN /\ epoch + startsPending < MaxStarts
            /\ startsPending' = startsPending + 1
       ELSE UNCHANGED startsPending
  /\ ev' = Event("start", StartGuard, epoch)
  /\ sent' = <<>>
  /\ UNCHANGED << session, flows, now, openTabs, saves, timers, nSave, ghosts >>

\* The part after the await: tab is the foreground tab the query found,
\* NoTab when it found none.
StartQueryDone ==
  /\ startsPending > 0
  /\ startsPending' = startsPending - 1
  /\ \E tab \in openTabs \cup {NoTab}, url \in Urls :
       IF tab = NoTab
         THEN /\ sent' = <<>>
              /\ ev' = Event("startDone", FALSE, epoch)
              /\ UNCHANGED << session, ghosts >>
         ELSE /\ isRecording' = TRUE
              /\ recordingTabId' = tab
              /\ recordedSteps' = << GotoStep(url) >>
              /\ lastActionTimestamp' = now
              /\ sent' = << StateChanged(TRUE, << GotoStep(url) >>) >>
              /\ origin' = << NoTab >>
              /\ lastReportAt' = 0
              /\ epoch' = epoch + 1
              /\ ev' = Event("startDone", TRUE, epoch + 1)
  /\ UNCHANGED << flows, now, openTabs, saves, timers, nSave >>

\* ------------------------------------------ handleCancelRecording (144-157)
\* Mutant of handleCancelRecording: the data is cleared at once, no timer.
handleCancelRecording_Immediate ==
  IF ~isRecording
    THEN UNCHANGED << session, timers, ghosts >>
    ELSE /\ isRecording' = FALSE
         /\ recordedSteps' = <<>>
         /\ recordingTabId' = NoTab
         /\ lastActionTimestamp' = 0
         /\ origin' = <<>>
         /\ lastReportAt' = 0
         /\ UNCHANGED << timers, epoch >>

\* isRecording = false now; resetState() from a timer later.
handleCancelRecording ==
  IF ~isRecording
    THEN UNCHANGED << session, timers, ghosts >>
    ELSE /\ isRecording' = FALSE
         /\ timers' = Append(timers, epoch)
         /\ UNCHANGED << recordedSteps, lastActionTimestamp, recordingTabId,
                         ghosts >>

\* The cancelRecording request of the side panel.
CancelRequest ==
  /\ handleCancelRecording
  /\ ev' = Event("cancel", isRecording, epoch)
  /\ sent' = <<>>
  /\ UNCHANGED << flows, now, openTabs, startsPending, saves, nSave >>

\* chrome.tabs.onRemoved (36-41)
TabRemoved(tab) ==
  /\ tab \in openTabs
  /\ openTabs' = openTabs \ {tab}
  /\ IF tab = recordingTabId
       THEN handleCancelRecording
       ELSE UNCHANGED << session, timers, ghosts >>
  /\ ev' = Event("tabRemoved", tab = recordingTabId /\ isRecording, epoch)
  /\ sent' = <<>>
  /\ UNCHANGED << flows, now, startsPending, saves, nSave >>

\* The setTimeout callback of handleCancelRecording (153-156).  ev.sess is
\* the session the cancel was handled in, ev.hit whether a session was live.
TimerFire ==
  /\ timers # <<>>
  /\ timers' = Tail(timers)
  /\ resetState
  /\ ev' = Event("timerReset", Live, Head(timers))
  /\ UNCHANGED << flows, now, openTabs, startsPending, saves, nSave, epoch >>

\* ------------------------------------- handleStopRecordingAndSave (135-142)
\* async function loadSavedFlows(): result.flows || {}
loadSavedFlows == flows

\* Mutant of SaveGuard: the early return is missing.
SaveGuard_Always == TRUE

\* if (!isRecording) return;
SaveGuard == isRecording

Moved(p, q) == (saves \ {p}) \cup {q}

\* The stopRecordingAndSave request: the part before the first await.
\* A save in progress is a record: pc is the await it is suspended at,
\* savedFlows its local variable; sess, the session the request was handled
\* in, is a ghost field.
SaveRequest(name) ==
  /\ IF SaveGuard
       THEN /\ nSave < MaxSaves
            /\ nSave' = nSave + 1
            /\ saves' = saves \cup
                 { [id |-> nSave + 1, name |-> name, pc |-> "get",
                    savedFlows |-> EmptyFlows, sess |-> epoch] }
       ELSE UNCHANGED << nSave, saves >>
  /\ ev' = Event("save", SaveGuard, epoch)
  /\ sent' = <<>>
  /\ UNCHANGED << session, flows, now, openTabs, startsPending, timers,
                  ghosts >>

\* chrome.storage.local.get('flows') is performed by the browser.
SaveLoaded(p) ==
  /\ p.pc = "get"
  /\ saves' = Moved(p, [p EXCEPT !.pc = "loaded", !.savedFlows = loadSavedFlows])
  /\ ev' = Event("saveLoaded", TRUE, p.sess)
  /\ sent' = <<>>
  /\ UNCHANGED << session, flows, now, openTabs, startsPending, timers,
                  nSave, ghosts >>

\* The turn after the first await: savedFlows[flowName] = recordedSteps and
\* the call of chrome.storage.local.set, which serialises its argument.
SaveSet(p) ==
  /\ p.pc = "loaded"
  /\ saves' = Moved(p, [p EXCEPT !.pc = "set",
                                 !.savedFlows = WithFlow(p.savedFlows, p.name, recordedSteps)])
  /\ ev' = Event("saveSet", TRUE, p.sess)
  /\ sent' = <<>>
  /\ UNCHANGED << session, flows, now, openTabs, startsPending, timers,
                  nSave, ghosts >>

\* The browser replaces the 'flows' key by the serialised mapping.
SaveStored(p) ==
  /\ p.pc = "set"
  /\ flows' = p.savedFlows
  /\ saves' = Moved(p, [p EXCEPT !.pc = "stored"])
  /\ ev' = Event("saveStored", TRUE, p.sess)
  /\ sent' = <<>>
  /\ UNCHANGED << session, now, openTabs, startsPending, timers,
                  nSave, ghosts >>

\* The turn after the second await: resetState().
SaveDone(p) ==
  /\ p.pc = "stored"
  /\ saves' = saves \ {p}
  /\ resetState
  /\ ev' = Event("saveDone", Live, p.sess)
  /\ UNCHANGED << flows, now, openTabs, startsPending, timers, nSave, epoch >>

\* ----------------------------------------------------------- specification
\* The turns of the Recording Controller; no flow is run meanwhile.
Next ==
  \/ Tick /\ UNCHANGED << rvars, fvars >>
  \/ \E tab \in Tabs, r \in Reports :
       OnRecordAction(tab, r.frameId, r.action) /\ UNCHANGED << rvars, fvars >>
  \/ StartRequest /\ UNCHANGED << rvars, fvars >>
  \/ StartQueryDone /\ UNCHANGED << rvars, fvars >>
  \/ CancelRequest /\ UNCHANGED << rvars, fvars >>
  \/ \E tab \in Tabs : TabRemoved(tab) /\ UNCHANGED << rvars, fvars >>
  \/ TimerFire /\ UNCHANGED << rvars, fvars >>
  \/ \E name \in Names : SaveRequest(name) /\ UNCHANGED << rvars, fvars >>
  \/ \E p \in saves : SaveLoaded(p) /\ UNCHANGED << rvars, fvars >>
  \/ \E p \in saves : SaveSet(p) /\ UNCHANGED << rvars, fvars >>
  \/ \E p \in saves : SaveStored(p) /\ UNCHANGED << rvars, fvars >>
  \/ \E p \in saves : SaveDone(p) /\ UNCHANGED << rvars, fvars >>

Spec == Init /\ [][Next]_vars

\* A setTimeout callback that is due runs.
FairSpec ==
  /\ Spec
  /\ WF_vars(TimerFire /\ UNCHANGED << rvars, fvars >>)

\* ------------------------------------------- reports from several frames
\* The recording turns alone (start, reports, clock), with reports from the
\* observers of two frames of a tab and with every shape of action object:
\* the click and the change the content script sends (part_003:53, 73-77),
\* and a click that already carries a frameId field of its own.
Frames == {0, 2}

ChangeAction == [type |-> "change", selector |-> "#name", value |-> "Ada"]

FramedClick ==
  [type |-> "click", selector |-> "#framed", label |-> "", frameId |-> 7]

FramedReports ==
  { [frameId |-> f, action |-> a] :
      f \in Frames, a \in {ClickAction, ChangeAction, FramedClick} }

TagNext ==
  \/ Tick /\ UNCHANGED << rvars, fvars >>
  \/ StartRequest /\ UNCHANGED << rvars, fvars >>
  \/ StartQueryDone /\ UNCHANGED << rvars, fvars >>
  \/ \E tab \in Tabs, r \in FramedReports :
       OnRecordAction(tab, r.frameId, r.action) /\ UNCHANGED << rvars, fvars >>

TagSpec == Init /\ [][TagNext]_vars

\* ------------------------------------------------ handleRunFlow (175-249)
\* The state of the Recording Controller and the Flow Store, which a run
\* does not change.
rec == << session, flows, now, openTabs, startsPending, saves, timers, nSave,
          ghosts, ev, sent >>

MainFrame == 0       \* part_000:213  frameId: step.frameId || 0

\* Stored flows a run is asked for: a goto, a click in the main frame, a
\* wait and a change in frame 2; a goto alone; nothing; steps with no goto.
ValidFlow ==
  << GotoStep("https://x/form"), WithFrameId(ClickAction, 0),
     WaitStep(150), WithFrameId(ChangeAction, 2) >>

Stores ==
  { ("f1" :> ValidFlow @@ "f2" :> << GotoStep("https://x/form") >>),
    ("f1" :> <<>>),
    ("f1" :> Tail(ValidFlow)) }

\* The frames a document of the run's tab can consist of.
FrameSets == { {0}, {0, 2} }

\* What the identifier step denotes in the page, where the function given to
\* chrome.scripting.executeScript({func}) is evaluated after serialisation:
\* nothing (a ReferenceError), or an object of the page (window.step).
Unbound     == [unbound |-> TRUE]
PageElement == [nodeType |-> 1, id |-> "step"]

PageStepBindings == { Unbound, PageElement }

\* JSON.stringify: a DOM node has no own enumerable properties.
JSONstringify(v) ==
  IF "nodeType" \in DOMAIN v THEN [json |-> "{}"] ELSE v

NotFoundLog    == "Error: Flow not found."
NoGotoLog      == "Error: Flow must start with a \"goto\"."
SetupLog       == "Error during handleRunFlow setup:"
FinishedLog    == "Flow execution finished successfully."
StoppingLog    == "Stopping flow due to error."
NoReceiver     == "Could not establish connection. Receiving end does not exist."
ElementMissing == "Element not found for selector"

\* alert(`Replay failed at step: ${JSON.stringify(step)}\nError: ${msg}`)
FailureAlert(stepText, msg) ==
  [kind |-> "failure", step |-> stepText, reason |-> msg]

\* alert('Replicate Operator: Flow replay completed!')
SuccessAlert == [kind |-> "success"]

RunInit ==
  /\ isRecording = FALSE
  /\ recordedSteps = <<>>
  /\ lastActionTimestamp = 0
  /\ recordingTabId = NoTab
  /\ flows \in Stores
  /\ now = Epoch
  /\ openTabs = Tabs
  /\ startsPending = 0
  /\ saves = {}
  /\ timers = <<>>
  /\ nSave = 0
  /\ origin = <<>>
  /\ lastReportAt = 0
  /\ epoch = 0
  /\ ev = Event("init", FALSE, 0)
  /\ sent = <<>>
  /\ NoRun
  /\ NoFrames

\* The runFlow request: the part before await loadSavedFlows().
RunRequest(name) ==
  /\ pc = "idle"
  /\ pc' = "load"
  /\ runName' = name
  /\ UNCHANGED << flowSteps, stepIndex, runTab, listener, executors,
                  errorMessage, delayMs, alerts, logs, dispatched, delivered,
                  executions >>

\* if (!steps || steps.length === 0)
Missing(savedFlows, name) ==
  name \notin DOMAIN savedFlows \/ savedFlows[name] = <<>>

\* Mutant of StartsWithGoto: the type of the first step is not tested.
StartsWithGoto_Any(initialStep) == TRUE

\* initialStep.type !== 'goto' is the error
StartsWithGoto(initialStep) == initialStep.type = "goto"

\* The part after the await: the two tests, then chrome.tabs.create.
RunLoaded ==
  /\ pc = "load"
  /\ LET savedFlows == loadSavedFlows
     IN  IF Missing(savedFlows, runName)
           THEN /\ logs' = Append(logs, NotFoundLog)
                /\ pc' = "returned"
                /\ UNCHANGED flowSteps
           ELSE /\ flowSteps' = savedFlows[runName]
                /\ IF StartsWithGoto(savedFlows[runName][1])
                     THEN pc' = "create" /\ UNCHANGED logs
                     ELSE pc' = "returned" /\ logs' = Append(logs, NoGotoLog)
  /\ UNCHANGED << runName, stepIndex, runTab, listener, executors,
                  errorMessage, delayMs, alerts, dispatched, delivered, executions >>

\* chrome.tabs.create resolves and the closure is registered, or it rejects
\* and the catch of line 246 logs.
TabCreated ==
  /\ pc = "create"
  /\ \/ /\ runTab' = "loading"
        /\ listener' = TRUE
        /\ pc' = "listen"
        /\ UNCHANGED logs
     \/ /\ logs' = Append(logs, SetupLog)
        /\ pc' = "returned"
        /\ UNCHANGED << runTab, listener >>
  /\ UNCHANGED << runName, flowSteps, stepIndex, executors, errorMessage,
                  delayMs, alerts, dispatched, delivered, executions >>

\* Mutant of removeListener: the closure stays registered.
removeListener_Skipped == listener' = listener

\* chrome.tabs.onUpdated.removeListener(listener)
removeListener == listener' = FALSE

\* if (tabId === tab.id && info.status === 'complete')
ListenerTest(own, status) == own /\ status = "complete"

\* chrome.tabs.onUpdated fires: for the run's tab (own) when a navigation
\* starts, which discards the document and the scripts injected in it, and
\* when the new document has loaded; for another tab at any time.
TabUpdated(own, status) ==
  /\ runTab \in {"loading", "complete"}
  /\ IF own
       THEN /\ runTab # status
            /\ runTab' = status
            /\ executors' = IF status = "loading" THEN {} ELSE executors
       ELSE UNCHANGED << runTab, executors >>
  /\ IF listener /\ ListenerTest(own, status)
       THEN /\ removeListener
            /\ executions' = executions + 1
            /\ pc' = "inject"
       ELSE UNCHANGED << listener, executions, pc >>
  /\ UNCHANGED << runName, flowSteps, stepIndex, errorMessage, delayMs,
                  alerts, logs, dispatched, delivered >>

\* The user closes the run's tab.
TabClosed ==
  /\ runTab \in {"loading", "complete"}
  /\ runTab' = "closed"
  /\ executors' = {}
  /\ UNCHANGED << pc, runName, flowSteps, stepIndex, listener, errorMessage,
                  delayMs, alerts, logs, dispatched, delivered, executions >>

FirstIndex == 2      \* part_000:199  steps.slice(1), 1-based

StabilizationMs == 500    \* part_000:235  setTimeout(resolve, 500)

\* Mutant of NextStep: the loop takes the same step again.
NextStep_Same(i) == i

\* for (const step of ...): the step after the one at i
NextStep(i) == i + 1

\* One pass of the loop body from its top to its first await, for the step
\* at i; past the last step, the code after the loop up to its await.
Iterate(i) ==
  /\ stepIndex' = i
  /\ IF i > Len(flowSteps)
       THEN /\ logs' = Append(logs, FinishedLog)
            /\ pc' = "alertDone"
            /\ delayMs' = 0
            /\ UNCHANGED dispatched
       ELSE /\ IF flowSteps[i].type = "wait"
                 THEN pc' = "wait" /\ delayMs' = flowSteps[i].duration
                 ELSE pc' = "send" /\ delayMs' = 0
            /\ dispatched' = Append(dispatched, i)
            /\ UNCHANGED logs

\* await chrome.scripting.executeScript({allFrames: true, files}) is over:
\* rejected when the tab is gone (nothing catches it), else every frame of
\* the document runs replay_script.js and the loop starts.
Injected ==
  /\ pc = "inject"
  /\ IF runTab = "closed"
       THEN /\ pc' = "crashed"
            /\ UNCHANGED << executors, stepIndex, delayMs, logs, dispatched >>
       ELSE /\ \E fs \in FrameSets : executors' = fs
            /\ Iterate(FirstIndex)
  /\ UNCHANGED << runName, flowSteps, runTab, listener, errorMessage, alerts,
                  delivered, executions >>

\* Mutant of WaitElapsed: the continue of line 205 is missing, the 500 ms
\* pause follows the wait step too.
WaitElapsed_ThenPause ==
  /\ pc = "wait"
  /\ pc' = "pause"
  /\ delayMs' = StabilizationMs
  /\ UNCHANGED << runName, flowSteps, stepIndex, runTab, listener, executors,
                  errorMessage, alerts, logs, dispatched, delivered, executions >>

\* await new Promise(resolve => setTimeout(resolve, step.duration)) is over.
WaitElapsed ==
  /\ pc = "wait"
  /\ Iterate(NextStep(stepIndex))
  /\ UNCHANGED << runName, flowSteps, runTab, listener, executors,
                  errorMessage, alerts, delivered, executions >>

\* frameId: step.frameId || 0
TargetFrame(step) ==
  IF "frameId" \in DOMAIN step THEN step.frameId ELSE MainFrame

\* The catch of line 220: log, then the alert is injected.
Caught(msg) ==
  /\ errorMessage' = msg
  /\ delayMs' = 0
  /\ logs' = Append(logs, StoppingLog)
  /\ pc' = "alertFail"

\* const tab = await chrome.tabs.create(...): the run's tab gets an id no
\* other open tab has.
RunTabId == NumTabs + 1

\* The frames, as << tab, frame >>, in which replay_script.js listens for
\* executeSingleStep: the frames the run injected, and the main frame of the
\* tabs that earlier runs left open.
Listening ==
  { << RunTabId, f >> : f \in executors } \cup { << t, MainFrame >> : t \in Tabs }

\* Mutant of Recipients: sendMessage without the frameId option reaches
\* every frame of the tab.
Recipients_Broadcast(tabId, step) ==
  { r \in Listening : r[1] = tabId }

\* chrome.tabs.sendMessage(tabId, message, {frameId: step.frameId || 0}):
\* the listeners the message reaches.
Recipients(tabId, step) ==
  { r \in Listening : r[1] = tabId /\ r[2] = TargetFrame(step) }

\* await chrome.tabs.sendMessage(...) is over: it rejected because no
\* executor listens in the target frame of the tab, or the executor replied
\* success, or it replied error (waitForElement timed out).
StepReplied ==
  /\ pc = "send"
  /\ LET step == flowSteps[stepIndex]
         to == IF runTab = "closed" THEN {} ELSE Recipients(RunTabId, step)
     IN  IF to = {}
           THEN /\ Caught(NoReceiver)
                /\ UNCHANGED delivered
           ELSE /\ delivered' = Append(delivered, [index |-> stepIndex, to |-> to])
                /\ \/ /\ pc' = "pause"
                      /\ delayMs' = StabilizationMs
                      /\ UNCHANGED << errorMessage, logs >>
                   \/ Caught(ElementMissing)
  /\ UNCHANGED << runName, flowSteps, stepIndex, runTab, listener, executors,
                  alerts, dispatched, executions >>

\* The 500 ms pause after a step is over.
PauseElapsed ==
  /\ pc = "pause"
  /\ Iterate(NextStep(stepIndex))
  /\ UNCHANGED << runName, flowSteps, runTab, listener, executors,
                  errorMessage, alerts, delivered, executions >>

\* Mutant of FailureReported: the return of line 228 is missing, the loop
\* goes on to its pause.
FailureReported_NoReturn ==
  /\ pc = "alertFail"
  /\ IF runTab = "closed"
       THEN pc' = "crashed" /\ UNCHANGED alerts
       ELSE \E b \in PageStepBindings :
              IF b = Unbound
                THEN pc' \in {"pause", "crashed"} /\ UNCHANGED alerts
                ELSE /\ pc' = "pause"
                     /\ alerts' = Append(alerts,
                                    FailureAlert(JSONstringify(b), errorMessage))
  /\ UNCHANGED << runName, flowSteps, stepIndex, runTab, listener, executors,
                  errorMessage, delayMs, logs, dispatched, delivered, executions >>

\* The injection of (msg) => alert(`... ${JSON.stringify(step)} ... ${msg}`)
\* is over.  The function is evaluated in the page with args [error.message];
\* step is not among its parameters, so it denotes what the page binds it to.
\* With the tab gone the injection rejects inside the catch block.
FailureReported ==
  /\ pc = "alertFail"
  /\ IF runTab = "closed"
       THEN pc' = "crashed" /\ UNCHANGED alerts
       ELSE \E b \in PageStepBindings :
              IF b = Unbound
                THEN pc' \in {"returned", "crashed"} /\ UNCHANGED alerts
                ELSE /\ pc' = "returned"
                     /\ alerts' = Append(alerts,
                                    FailureAlert(JSONstringify(b), errorMessage))
  /\ UNCHANGED << runName, flowSteps, stepIndex, runTab, listener, executors,
                  errorMessage, delayMs, logs, dispatched, delivered, executions >>

\* The injection of () => alert('Replicate Operator: Flow replay completed!')
\* is over; with the tab gone it rejects and nothing catches it.
SuccessReported ==
  /\ pc = "alertDone"
  /\ IF runTab = "closed"
       THEN pc' = "crashed" /\ UNCHANGED alerts
       ELSE pc' = "returned" /\ alerts' = Append(alerts, SuccessAlert)
  /\ UNCHANGED << runName, flowSteps, stepIndex, runTab, listener, executors,
                  errorMessage, delayMs, logs, dispatched, delivered, executions >>

RunNext ==
  \/ \E name \in Names : RunRequest(name) /\ UNCHANGED << rec, fvars >>
  \/ RunLoaded /\ UNCHANGED << rec, fvars >>
  \/ TabCreated /\ UNCHANGED << rec, fvars >>
  \/ \E own \in BOOLEAN, status \in {"loading", "complete"} :
       TabUpdated(own, status) /\ UNCHANGED << rec, fvars >>
  \/ TabClosed /\ UNCHANGED << rec, fvars >>
  \/ Injected /\ UNCHANGED << rec, fvars >>
  \/ WaitElapsed /\ UNCHANGED << rec, fvars >>
  \/ StepReplied /\ UNCHANGED << rec, fvars >>
  \/ PauseElapsed /\ UNCHANGED << rec, fvars >>
  \/ FailureReported /\ UNCHANGED << rec, fvars >>
  \/ SuccessReported /\ UNCHANGED << rec, fvars >>

RunSpec == RunInit /\ [][RunNext]_vars

\* The browser delivers what is due: storage reads, tab creation, the load
\* of the run's tab while it is open, injections, timers and replies.
RunFairSpec ==
  /\ RunSpec
  /\ WF_vars(RunLoaded /\ UNCHANGED << rec, fvars >>)
  /\ WF_vars(TabCreated /\ UNCHANGED << rec, fvars >>)
  /\ WF_vars(TabUpdated(TRUE, "complete") /\ UNCHANGED << rec, fvars >>)
  /\ WF_vars(Injected /\ UNCHANGED << rec, fvars >>)
  /\ WF_vars(WaitElapsed /\ UNCHANGED << rec, fvars >>)
  /\ WF_vars(StepReplied /\ UNCHANGED << rec, fvars >>)
  /\ WF_vars(PauseElapsed /\ UNCHANGED << rec, fvars >>)
  /\ WF_vars(FailureReported /\ UNCHANGED << rec, fvars >>)
  /\ WF_vars(SuccessReported /\ UNCHANGED << rec, fvars >>)

\* ------------------------------------- injectScriptWithCheck (part_001:116)
\* and the content script in the main frame of the recording tab.
MaxInstantiations == 3
MaxClicks == 2

\* The two versions of the content script: src/content_script.js with its
\* pingListener, and part_003 ("Mousedown-is-King") without one.
ObserverScripts == {"content_script.js", "part_003"}

\* The globals of background.js at start-up.
BackgroundInit ==
  /\ isRecording = FALSE
  /\ recordedSteps = <<>>
  /\ lastActionTimestamp = 0
  /\ recordingTabId = NoTab
  /\ flows = ("f1" :> OldFlow)
  /\ now = Epoch
  /\ openTabs = Tabs
  /\ startsPending = 0
  /\ saves = {}
  /\ timers = <<>>
  /\ nSave = 0
  /\ origin = <<>>
  /\ lastReportAt = 0
  /\ epoch = 0
  /\ ev = Event("init", FALSE, 0)
  /\ sent = <<>>

InjectInit ==
  /\ BackgroundInit
  /\ NoRun
  /\ observer \in ObserverScripts
  /\ replayListener \in BOOLEAN
  /\ guard = FALSE
  /\ listenerSets = 0
  /\ instantiations = 0
  /\ ppc = [p \in Procs |-> "idle"]
  /\ reply = [p \in Procs |-> "unsent"]
  /\ injected = [p \in Procs |-> 0]
  /\ clicks = 0
  /\ clickReports = 0
  /\ NoObserver
  /\ NoPoll
  /\ NoExec
  /\ NoDelete
  /\ NoSelector

\* The frame holds a listener that answers {type: 'ping'}: pingListener of
\* content_script.js; part_003 adds no chrome.runtime.onMessage listener.
AnswersPing == observer = "content_script.js" /\ listenerSets > 0

\* The outcomes of await chrome.tabs.sendMessage(tabId, {type: 'ping'},
\* {frameId: 0}): the reply {status: 'pong'}; with no onMessage listener in
\* the frame the promise is rejected ("Receiving end does not exist"); with
\* only the listener of replay_script.js, which sends no response to a
\* ping, the port closes without response and the promise is resolved with
\* undefined or rejected.
PingReply ==
  IF AnswersPing THEN {"pong"}
  ELSE IF replayListener THEN {"silent", "error"}
  ELSE {"error"}

\* Mutant of Instantiate: the content script without its guard.
Instantiate_NoGuard ==
  /\ instantiations' = instantiations + 1
  /\ guard' = TRUE
  /\ listenerSets' = listenerSets + 1

\* The content script runs in the document: behind the guard it does
\* nothing, else it sets the guard and adds its listeners.
Instantiate ==
  /\ instantiations' = instantiations + 1
  /\ IF guard
       THEN UNCHANGED << guard, listenerSets >>
       ELSE /\ guard' = TRUE
            /\ listenerSets' = listenerSets + 1

\* injectScriptWithCheck(tabId) is called and sends its ping.
ProbeSent(p) ==
  /\ ppc[p] \in {"idle", "done"}
  /\ ppc' = [ppc EXCEPT ![p] = "probing"]
  /\ reply' = [reply EXCEPT ![p] = "pending"]
  /\ injected' = [injected EXCEPT ![p] = 0]
  /\ UNCHANGED << observer, replayListener, guard, listenerSets,
                  instantiations, clicks, clickReports >>

\* The await of the ping is over: a pong returns; another response leaves
\* the try block and the function ends; a rejection enters the catch block,
\* which calls chrome.scripting.executeScript.
ProbeReplied(p) ==
  /\ ppc[p] = "probing"
  /\ \E r \in PingReply :
       /\ reply' = [reply EXCEPT ![p] = r]
       /\ IF r = "error"
            THEN /\ ppc' = [ppc EXCEPT ![p] = "injecting"]
                 /\ injected' = [injected EXCEPT ![p] = injected[p] + 1]
            ELSE /\ ppc' = [ppc EXCEPT ![p] = "done"]
                 /\ UNCHANGED injected
  /\ UNCHANGED << observer, replayListener, guard, listenerSets,
                  instantiations, clicks, clickReports >>

\* await chrome.scripting.executeScript({target: {tabId}, files:
\* ['content_script.js']}) is over: the script ran in the main frame, or the
\* injection was rejected and is logged.
InjectionDone(p) ==
  /\ ppc[p] = "injecting"
  /\ ppc' = [ppc EXCEPT ![p] = "done"]
  /\ \/ instantiations < MaxInstantiations /\ Instantiate
     \/ UNCHANGED << guard, listenerSets, instantiations >>
  /\ UNCHANGED << observer, replayListener, reply, injected, clicks,
                  clickReports >>

\* The tab loads a new document: its window has no guard and no listeners.
Navigated ==
  /\ guard' = FALSE
  /\ listenerSets' = 0
  /\ instantiations' = 0
  /\ replayListener' = FALSE
  /\ UNCHANGED << observer, ppc, reply, injected, clicks, clickReports >>

\* The user clicks an element of the page: every set of listeners sends one
\* click report (handleClick of content_script.js, onMouseDown of part_003).
UserClick ==
  /\ clicks < MaxClicks
  /\ clicks' = clicks + 1
  /\ clickReports' = clickReports + listenerSets
  /\ UNCHANGED << observer, replayListener, guard, listenerSets,
                  instantiations, ppc, reply, injected >>

InjectNext ==
  \/ \E p \in Procs : ProbeSent(p) /\ UNCHANGED << rec, rvars, ovars, pvars, xvars, dvars, svars >>
  \/ \E p \in Procs : ProbeReplied(p) /\ UNCHANGED << rec, rvars, ovars, pvars, xvars, dvars, svars >>
  \/ \E p \in Procs : InjectionDone(p) /\ UNCHANGED << rec, rvars, ovars, pvars, xvars, dvars, svars >>
  \/ Navigated /\ UNCHANGED << rec, rvars, ovars, pvars, xvars, dvars, svars >>
  \/ UserClick /\ UNCHANGED << rec, rvars, ovars, pvars, xvars, dvars, svars >>

InjectSpec == InjectInit /\ [][InjectNext]_vars

\* ------------------------------------------- the observer's event handlers
\* part_003:43-81 and src/content_script.js:56-116, in one document.
MaxReports == 4
MaxEdits == 2

\* One document in which the content script has run once.
ObserverInit ==
  /\ BackgroundInit
  /\ NoRun
  /\ observer \in ObserverScripts
  /\ replayListener = FALSE
  /\ guard = TRUE
  /\ listenerSets = 1
  /\ instantiations = 1
  /\ ppc = [p \in Procs |-> "idle"]
  /\ reply = [p \in Procs |-> "unsent"]
  /\ injected = [p \in Procs |-> 0]
  /\ clicks = 0
  /\ clickReports = 0
  /\ NoObserver
  /\ NoPoll
  /\ NoExec
  /\ NoDelete
  /\ NoSelector

\* {type: 'change', selector: getSelector(target), value}
ChangeOf(e, v) == [type |-> "change", selector |-> e, value |-> v]

\* {type: 'click', selector: getSelector(target), label}
ClickOn(t) == [type |-> "click", selector |-> t]

\* Mutant of Key: the Map is keyed by one constant, not by the element.
Key_Shared(e) == "#a"

\* lastRecordedValue.get(target) / .set(target, ...): the key is the element
Key(e) == e

\* recordInputChange of part_003 (45-56): what it sends for element e ...
Flushed(e) ==
  IF lastRecordedValue[Key(e)] # elValue[e]
    THEN << ChangeOf(e, elValue[e]) >>
    ELSE << >>

\* ... and the Map after it.
Remembered(e) ==
  IF lastRecordedValue[Key(e)] # elValue[e]
    THEN [lastRecordedValue EXCEPT ![Key(e)] = elValue[e]]
    ELSE lastRecordedValue

\* recordInputChange of content_script.js (57-66): always sends.
Recorded(e) == << ChangeOf(e, elValue[e]) >>

\* Mutant of MouseDownReports: the click is sent before the flush.
MouseDownReports_ClickFirst(flush, click) == click \o flush

\* onMouseDown (59-78): Step 1, the flush, then Step 2, the click.
MouseDownReports(flush, click) == flush \o click

\* The user types into the focused element: an input event. part_003 has no
\* listener for it; handleInput of content_script.js (72-77) restarts the
\* debounce timer, with the element as argument.
Edit(v) ==
  /\ focus \in Editables
  /\ edits < MaxEdits
  /\ v # elValue[focus]
  /\ elValue' = [elValue EXCEPT ![focus] = v]
  /\ edits' = edits + 1
  /\ pending' = IF observer = "content_script.js" THEN focus ELSE pending
  /\ UNCHANGED << focus, lastRecordedValue, outbox, flushes >>

\* The debounce timer fires, 500 ms after the last input event:
\* recordInputChange(target) of content_script.js.
DebounceFired ==
  /\ pending # "none"
  /\ Len(outbox) < MaxReports
  /\ outbox' = outbox \o Recorded(pending)
  /\ flushes' = flushes + 1
  /\ pending' = "none"
  /\ UNCHANGED << elValue, focus, lastRecordedValue, edits >>

\* The focus moves without the pointer (Tab key, script): a blur event on
\* the element that had it. handleBlur of content_script.js (80-93) records
\* at once and leaves the timer alone; part_003 has no listener for it.
FocusMoved(to) ==
  /\ to # focus
  /\ Len(outbox) < MaxReports
  /\ focus' = to
  /\ edits' = 0
  /\ IF observer = "content_script.js" /\ focus \in Editables
       THEN /\ outbox' = outbox \o Recorded(focus)
            /\ flushes' = flushes + 1
       ELSE UNCHANGED << outbox, flushes >>
  /\ UNCHANGED << elValue, lastRecordedValue, pending >>

\* The user presses the pointer on t and releases it. part_003: onMouseDown
\* runs, then the focus moves. content_script.js: no mousedown listener;
\* the focus moves, with a blur event (handleBlur) on the element that lost
\* it, then the click event runs handleClick (96-110), which finds
\* document.activeElement to be the target or no input.
Pointer(t) ==
  /\ Len(outbox) + 2 <= MaxReports
  /\ LET away == focus \in Editables /\ focus # t
     IN  IF observer = "part_003"
           THEN /\ outbox' = outbox \o
                      MouseDownReports(IF away THEN Flushed(focus) ELSE << >>,
                                       << ClickOn(t) >>)
                /\ lastRecordedValue' =
                      IF away THEN Remembered(focus) ELSE lastRecordedValue
                /\ flushes' = IF away THEN flushes + 1 ELSE flushes
           ELSE /\ outbox' = outbox \o
                      (IF away THEN Recorded(focus) ELSE << >>) \o
                      << ClickOn(t) >>
                /\ flushes' = IF away THEN flushes + 1 ELSE flushes
                /\ UNCHANGED lastRecordedValue
  /\ focus' = IF t \in Editables THEN t ELSE "none"
  /\ edits' = IF focus' = focus THEN edits ELSE 0
  /\ UNCHANGED << elValue, pending >>

ObserverNext ==
  \/ \E v \in Values : Edit(v) /\ UNCHANGED << rec, rvars, ivars, pvars, xvars, dvars, svars >>
  \/ DebounceFired /\ UNCHANGED << rec, rvars, ivars, pvars, xvars, dvars, svars >>
  \/ \E to \in Editables \cup {"none"} :
       FocusMoved(to) /\ UNCHANGED << rec, rvars, ivars, pvars, xvars, dvars, svars >>
  \/ \E t \in Targets : Pointer(t) /\ UNCHANGED << rec, rvars, ivars, pvars, xvars, dvars, svars >>

ObserverSpec == ObserverInit /\ [][ObserverNext]_vars

\* ----------------------------------------- waitForElement (part_002:30-45)
MaxJitter == 1

PollInterval == 100    \* part_002:43  setInterval(..., 100)
Timeout == 7000        \* part_002:30  timeout = 7000

\* The delays by which a run of the interval callback may be late, in ms.
Jitter == 0..MaxJitter

\* Before executeStep calls waitForElement(step.selector); the element may
\* be in the document already.
PollInit ==
  /\ BackgroundInit
  /\ NoRun
  /\ NoInject
  /\ NoObserver
  /\ interval = FALSE
  /\ outcome = "none"
  /\ elapsed = 0
  /\ present \in BOOLEAN
  /\ polls = 0
  /\ NoExec
  /\ NoDelete
  /\ NoSelector

\* waitForElement(selector): the promise is created, startTime is taken and
\* the interval is set.
WaitCalled ==
  /\ outcome = "none"
  /\ outcome' = "pending"
  /\ interval' = TRUE
  /\ elapsed' = 0
  /\ UNCHANGED << present, polls >>

\* Mutant of clearInterval: the callback stays registered.
clearInterval_Missing == TRUE

\* clearInterval(intervalId): the callback is no longer registered.
clearInterval == FALSE

\* Date.now() - startTime > timeout
TimedOut(ms) == ms > Timeout

\* resolve(...) / reject(...): a promise is settled once; a later call has
\* no effect.
Settled(result) == IF outcome = "pending" THEN result ELSE outcome

\* The interval callback runs, late by late ms: the element is looked up
\* first, the time is compared only if there is none.
Poll(late) ==
  /\ interval
  /\ polls' = polls + 1
  /\ elapsed' = elapsed + PollInterval + late
  /\ IF present
       THEN /\ interval' = clearInterval
            /\ outcome' = Settled("element")
       ELSE IF TimedOut(elapsed')
              THEN /\ interval' = clearInterval
                   /\ outcome' = Settled(ElementMissing)
              ELSE UNCHANGED << interval, outcome >>
  /\ UNCHANGED present

\* The page adds or removes the element the selector matches.
DomChanged ==
  /\ present' = ~present
  /\ UNCHANGED << interval, outcome, elapsed, polls >>

PollNext ==
  \/ WaitCalled /\ UNCHANGED << rec, rvars, ivars, ovars, xvars, dvars, svars >>
  \/ \E late \in Jitter : Poll(late) /\ UNCHANGED << rec, rvars, ivars, ovars, xvars, dvars, svars >>
  \/ DomChanged /\ UNCHANGED << rec, rvars, ivars, ovars, xvars, dvars, svars >>

PollSpec == PollInit /\ [][PollNext]_vars

\* The browser runs the interval callback as long as it is registered.
PollFairSpec ==
  /\ PollSpec
  /\ WF_vars(\E late \in Jitter :
               Poll(late) /\ UNCHANGED << rec, rvars, ivars, ovars, xvars, dvars, svars >>)

\* ---------------------------------------------- executeStep (part_002:49-71)
\* The content an element has before the step.
OldContent == "old"

\* The elements a selector may resolve to: with or without a value property,
\* content-editable or not.
Elements ==
  { [value |-> v, isContentEditable |-> c, innerText |-> OldContent] :
      v \in {OldContent, Undefined}, c \in BOOLEAN }

\* The steps the orchestrator sends in executeSingleStep.
ExecSteps ==
  { [type |-> "click", selector |-> "#step"] } \cup
  { [type |-> "change", selector |-> "#step", value |-> v] : v \in {"Ada", ""} }

UnsupportedTarget ==
  "Cannot set value on a non-input, non-contenteditable element."

\* executeStep(step) is about to be called; the element may be in the
\* document already.
ExecInit ==
  /\ BackgroundInit
  /\ NoRun
  /\ NoInject
  /\ NoObserver
  /\ interval = FALSE
  /\ outcome = "none"
  /\ elapsed = 0
  /\ present \in BOOLEAN
  /\ polls = 0
  /\ el \in Elements
  /\ execStep \in ExecSteps
  /\ events = <<>>
  /\ execResult = "none"
  /\ NoDelete
  /\ NoSelector

\* Mutant of Notifications: blur is dispatched before change.
Notifications_Reordered == << "input", "blur", "change" >>

\* The events dispatched after the assignment (lines 64-66), in this order.
Notifications == << "input", "change", "blur" >>

\* element.dispatchEvent(new Event(type, ...)) for each of them: the
\* listeners see the element as it is at that moment.
Dispatched(e) ==
  [i \in 1..Len(Notifications) |-> [type |-> Notifications[i], target |-> e]]

\* typeof element.value !== 'undefined'
HasValue(e) == e.value # Undefined

\* The switch of executeStep, after await waitForElement(step.selector) is
\* over: a rejection of waitForElement ends executeStep with its error.
Executed ==
  /\ execResult = "none"
  /\ outcome \in {"element", ElementMissing}
  /\ IF outcome = ElementMissing
       THEN /\ execResult' = ElementMissing
            /\ UNCHANGED << el, events >>
       ELSE IF execStep.type = "click"
         THEN /\ events' = << [type |-> "click", target |-> el] >>
              /\ execResult' = "success"
              /\ UNCHANGED el
         ELSE IF HasValue(el)
           THEN /\ el' = [el EXCEPT !.value = execStep.value]
                /\ events' = Dispatched(el')
                /\ execResult' = "success"
           ELSE IF el.isContentEditable
             THEN /\ el' = [el EXCEPT !.innerText = execStep.value]
                  /\ events' = Dispatched(el')
                  /\ execResult' = "success"
             ELSE /\ execResult' = UnsupportedTarget
                  /\ UNCHANGED << el, events >>
  /\ UNCHANGED execStep

ExecNext ==
  \/ PollNext
  \/ Executed /\ UNCHANGED << rec, rvars, ivars, ovars, pvars, dvars, svars >>

ExecSpec == ExecInit /\ [][ExecNext]_vars

\* ------------------------------------- handleDeleteFlow (part_000:261-266)
\* and handleStopRecordingAndSave, on one Flow Store.
MaxDeletes == 2

\* Mutant of Without: delete savedFlows[flowName] empties the mapping.
Without_All(savedFlows, flowName) == EmptyFlows

\* delete savedFlows[flowName]: the mapping without the key; an absent key
\* is no error.
Without(savedFlows, flowName) ==
  [n \in DOMAIN savedFlows \ {flowName} |-> savedFlows[n]]

Replaced(p, q) == (deletes \ {p}) \cup {q}

\* The deleteFlow request: the part before the first await. A delete in
\* progress is a record: pc is the await it is suspended at, savedFlows its
\* local variable; read, the mapping the store returned, is a ghost field.
DeleteRequest(name) ==
  /\ nDelete < MaxDeletes
  /\ nDelete' = nDelete + 1
  /\ deletes' = deletes \cup
       { [id |-> nDelete + 1, name |-> name, pc |-> "get",
          savedFlows |-> EmptyFlows, read |-> EmptyFlows] }
  /\ ev' = Event("delete", TRUE, epoch)
  /\ sent' = <<>>
  /\ UNCHANGED << session, flows, now, openTabs, startsPending, saves,
                  timers, nSave, ghosts, storeLog >>

\* chrome.storage.local.get('flows') is performed by the browser.
DeleteLoaded(p) ==
  /\ p.pc = "get"
  /\ deletes' = Replaced(p, [p EXCEPT !.pc = "loaded",
                                      !.savedFlows = loadSavedFlows,
                                      !.read = loadSavedFlows])
  /\ ev' = Event("deleteLoaded", TRUE, epoch)
  /\ sent' = <<>>
  /\ UNCHANGED << session, flows, now, openTabs, startsPending, saves,
                  timers, nSave, ghosts, nDelete, storeLog >>

\* The turn after the first await: delete savedFlows[flowName] and the call
\* of chrome.storage.local.set, which serialises its argument.
DeleteSet(p) ==
  /\ p.pc = "loaded"
  /\ deletes' = Replaced(p, [p EXCEPT !.pc = "set",
                                      !.savedFlows = Without(p.savedFlows, p.name)])
  /\ ev' = Event("deleteSet", TRUE, epoch)
  /\ sent' = <<>>
  /\ UNCHANGED << session, flows, now, openTabs, startsPending, saves,
                  timers, nSave, ghosts, nDelete, storeLog >>

\* The browser replaces the 'flows' key by the serialised mapping.
DeleteStored(p) ==
  /\ p.pc = "set"
  /\ flows' = p.savedFlows
  /\ deletes' = Replaced(p, [p EXCEPT !.pc = "stored"])
  /\ ev' = Event("deleteStored", TRUE, epoch)
  /\ sent' = <<>>
  /\ UNCHANGED << session, now, openTabs, startsPending, saves, timers,
                  nSave, ghosts, nDelete, storeLog >>

\* The turn after the second await: the side panel is told to reload.
DeleteDone(p) ==
  /\ p.pc = "stored"
  /\ deletes' = deletes \ {p}
  /\ storeLog' = Append(storeLog, [op |-> "delete", name |-> p.name])
  /\ ev' = Event("deleteDone", TRUE, epoch)
  /\ sent' = << FlowsUpdated >>
  /\ UNCHANGED << session, flows, now, openTabs, startsPending, saves,
                  timers, nSave, ghosts, nDelete >>

\* SaveDone(p), with the ghost storeLog.
SaveEnded(p) ==
  /\ SaveDone(p)
  /\ storeLog' = Append(storeLog, [op |-> "save", name |-> p.name,
                                   steps |-> p.savedFlows[p.name]])
  /\ UNCHANGED << deletes, nDelete >>

\* The store operations of background.js, with the start of a session that
\* a save needs.
StoreNext ==
  \/ StartRequest /\ UNCHANGED << rvars, ivars, ovars, pvars, xvars, dvars, svars >>
  \/ StartQueryDone /\ UNCHANGED << rvars, ivars, ovars, pvars, xvars, dvars, svars >>
  \/ \E name \in Names :
       SaveRequest(name) /\ UNCHANGED << rvars, ivars, ovars, pvars, xvars, dvars, svars >>
  \/ \E p \in saves :
       SaveLoaded(p) /\ UNCHANGED << rvars, ivars, ovars, pvars, xvars, dvars, svars >>
  \/ \E p \in saves :
       SaveSet(p) /\ UNCHANGED << rvars, ivars, ovars, pvars, xvars, dvars, svars >>
  \/ \E p \in saves :
       SaveStored(p) /\ UNCHANGED << rvars, ivars, ovars, pvars, xvars, dvars, svars >>
  \/ \E p \in saves :
       SaveEnded(p) /\ UNCHANGED << rvars, ivars, ovars, pvars, xvars, svars >>
  \/ \E name \in Names :
       DeleteRequest(name) /\ UNCHANGED << rvars, ivars, ovars, pvars, xvars, svars >>
  \/ \E p \in deletes :
       DeleteLoaded(p) /\ UNCHANGED << rvars, ivars, ovars, pvars, xvars, svars >>
  \/ \E p \in deletes :
       DeleteSet(p) /\ UNCHANGED << rvars, ivars, ovars, pvars, xvars, svars >>
  \/ \E p \in deletes :
       DeleteStored(p) /\ UNCHANGED << rvars, ivars, ovars, pvars, xvars, svars >>
  \/ \E p \in deletes :
       DeleteDone(p) /\ UNCHANGED << rvars, ivars, ovars, pvars, xvars, svars >>

StoreSpec == Init /\ [][StoreNext]_vars

\* ------------------------------------------- getSelector (part_003:13-40)
\* and document.querySelector (part_002:34), on one document.
MaxNodes == 3

\* The body element; the elements under it are 1..Len(doc).
Body == 0

\* document.querySelector finds nothing.
Null == 0 - 1

\* Ids and attribute values are strings, kept as sequences of characters;
\* the empty string is an absent id or attribute.
Texts == { << >>, << "a" >>, << "a", "." >> }

\* An element: its tag, its id, its name attribute and its parent (Body or
\* an element before it).
NodeKinds ==
  [tag : {"div", "input"}, id : Texts, name : { << >>, << "n" >> }]

\* The parents make a tree listed in document order: an element's parent is
\* the element before it or one of that element's ancestors.
RECURSIVE Ancestors(_, _)
Ancestors(par, i) ==
  IF i = Body THEN {} ELSE {par[i]} \cup Ancestors(par, par[i])

Shapes ==
  { par \in [1..MaxNodes -> 0..(MaxNodes - 1)] :
      /\ par[1] = Body
      /\ \A i \in 2..MaxNodes :
           par[i] = i - 1 \/ par[i] \in Ancestors(par, i - 1) }

Docs ==
  { [i \in 1..MaxNodes |->
       [tag |-> kinds[i].tag, id |-> kinds[i].id, name |-> kinds[i].name,
        parent |-> par[i]]] :
      kinds \in [1..MaxNodes -> NodeKinds], par \in Shapes }

SelectorInit ==
  /\ BackgroundInit
  /\ NoRun
  /\ NoInject
  /\ NoObserver
  /\ NoPoll
  /\ NoExec
  /\ NoDelete
  /\ doc \in Docs
  /\ target \in 1..MaxNodes
  /\ selector = << >>
  /\ branch = "none"
  /\ found = << >>

TagOf(d, i) == IF i = Body THEN "body" ELSE d[i].tag
IdOf(d, i) == IF i = Body THEN << >> ELSE d[i].id
NameOf(d, i) == IF i = Body THEN << >> ELSE d[i].name

\* The tokens of a selector: a type selector, #id, [attr="value"],
\* :nth-of-type(n) and the child combinator " > ".
TypeTok(t) == [k |-> "type", a |-> "", v |-> << t >>, n |-> 0]
IdTok(chars) == [k |-> "id", a |-> "", v |-> chars, n |-> 0]
AttrTok(attr, chars) == [k |-> "attr", a |-> attr, v |-> chars, n |-> 0]
NthTok(i) == [k |-> "nth", a |-> "", v |-> << >>, n |-> i]
ChildTok == [k |-> "child", a |-> "", v |-> << >>, n |-> 0]

\* The characters CSS.escape puts a backslash before.
Special == { "." }

\* CSS.escape(string)
RECURSIVE CSSescape(_)
CSSescape(chars) ==
  IF chars = << >> THEN << >>
  ELSE (IF Head(chars) \in Special THEN << "\\", Head(chars) >>
                                   ELSE << Head(chars) >>)
       \o CSSescape(Tail(chars))

\* What a CSS parser reads from an escaped identifier or string: the
\* character after a backslash stands for itself, and a character of
\* Special without backslash ends the identifier, so that the selector is
\* not the one meant; "?" marks that.
RECURSIVE CSSparse(_)
CSSparse(chars) ==
  IF chars = << >> THEN << >>
  ELSE IF Head(chars) = "\\"
    THEN IF Len(chars) = 1 THEN << "?" >>
         ELSE << chars[2] >> \o CSSparse(Tail(Tail(chars)))
    ELSE IF Head(chars) \in Special THEN << "?" >>
    ELSE << Head(chars) >> \o CSSparse(Tail(chars))

\* The position :nth-of-type counts: 1 + the previous siblings of the same
\* tag (lines 28-33).
NthOfType(d, i) ==
  IF i = Body THEN 1
  ELSE 1 + Cardinality({ j \in 1..(i - 1) :
                           d[j].parent = d[i].parent /\ d[j].tag = d[i].tag })

\* Element i has what the simple selector tok asks for.
Has(d, i, tok) ==
  CASE tok.k = "type" -> << TagOf(d, i) >> = tok.v
    [] tok.k = "id" -> IdOf(d, i) # << >> /\ IdOf(d, i) = CSSparse(tok.v)
    [] tok.k = "attr" -> NameOf(d, i) # << >> /\ NameOf(d, i) = CSSparse(tok.v)
    [] tok.k = "nth" -> NthOfType(d, i) = tok.n
    [] OTHER -> FALSE

\* The position of the last child combinator in a selector, 0 if none.
LastChild(sel) ==
  LET at == { j \in 1..Len(sel) : sel[j].k = "child" }
  IN  IF at = {} THEN 0 ELSE CHOOSE j \in at : \A m \in at : m <= j

\* Element i matches the selector: its last compound by i itself, what is
\* before the last " > " by the parent of i.
RECURSIVE Matches(_, _, _)
Matches(d, i, sel) ==
  LET c == LastChild(sel)
      compound == SubSeq(sel, c + 1, Len(sel))
  IN  /\ compound # << >>
      /\ \A j \in 1..Len(compound) : Has(d, i, compound[j])
      /\ c > 0 => /\ i # Body
                  /\ Matches(d, d[i].parent, SubSeq(sel, 1, c - 1))

\* document.querySelectorAll(selector)
querySelectorAll(d, sel) == { i \in 0..Len(d) : Matches(d, i, sel) }

\* document.querySelector(selector): the first match in document order
querySelector(d, sel) ==
  LET all == querySelectorAll(d, sel)
  IN  IF all = {} THEN Null ELSE CHOOSE i \in all : \A j \in all : i <= j

\* Lines 16-23, with name as the stable attribute: the selector
\* tag[name="value"].
AttrSelector(d, i) ==
  << TypeTok(TagOf(d, i)), AttrTok("name", CSSescape(NameOf(d, i))) >>

\* Lines 24-38: the loop that builds path, from the element upwards, until
\* body or an element with an id.
RECURSIVE Path(_, _)
Path(d, cur) ==
  IF cur = Body THEN << >>
  ELSE IF IdOf(d, cur) # << >> THEN << IdTok(CSSescape(IdOf(d, cur))) >>
  ELSE Path(d, d[cur].parent)
       \o << ChildTok, TypeTok(TagOf(d, cur)), NthTok(NthOfType(d, cur)) >>

\* Mutant of BranchOf: the attribute is tried before the id.
BranchOf_AttrFirst(d, i) ==
  IF /\ NameOf(d, i) # << >>
     /\ Cardinality(querySelectorAll(d, AttrSelector(d, i))) = 1
    THEN "attr"
  ELSE IF IdOf(d, i) # << >> THEN "id"
  ELSE "path"

\* The return statement getSelector(element) leaves by.
BranchOf(d, i) ==
  IF IdOf(d, i) # << >> THEN "id"
  ELSE IF /\ NameOf(d, i) # << >>
          /\ Cardinality(querySelectorAll(d, AttrSelector(d, i))) = 1
    THEN "attr"
  ELSE "path"

\* getSelector(element)
getSelector(d, i) ==
  CASE BranchOf(d, i) = "id" -> << IdTok(CSSescape(IdOf(d, i))) >>
    [] BranchOf(d, i) = "attr" -> AttrSelector(d, i)
    [] OTHER -> << TypeTok("body") >> \o Path(d, i)

\* The observer resolves the target of an event.
Resolve ==
  /\ branch = "none"
  /\ selector' = getSelector(doc, target)
  /\ branch' = BranchOf(doc, target)
  /\ UNCHANGED << doc, target, found >>

\* The executor queries the unchanged document with the selector.
Query ==
  /\ branch # "none"
  /\ found = << >>
  /\ found' = << querySelector(doc, selector) >>
  /\ UNCHANGED << doc, target, selector, branch >>

SelectorNext ==
  \/ Resolve /\ UNCHANGED << rec, rvars, ivars, ovars, pvars, xvars, dvars >>
  \/ Query /\ UNCHANGED << rec, rvars, ivars, ovars, pvars, xvars, dvars >>

SelectorSpec == SelectorInit /\ [][SelectorNext]_vars

\* ================================================================ properties
IsAction(step) == step.type \in ActionTypes

\* s is t with elements added at the end
Extends(s, t) == Len(s) >= Len(t) /\ SubSeq(s, 1, Len(t)) = t

\* ---------------------------------------------------------------------- C1
\* C1 (Idle invariant): a recordAction report handled while isRecording is
\* false (before any start, after a cancel, after a reset) leaves
\* recordedSteps as it was: neither the action nor a wait is appended.
IdleInvariant ==
  [][ (ev'.op = "recordAction" /\ ~isRecording)
        => recordedSteps' = recordedSteps ]_vars

\* A report was handled and discarded after a cancel, while the cancelled
\* session's steps and tab binding were still in place.
IdleInvariantWitness ==
  /\ ev.op = "recordAction" /\ ~ev.hit
  /\ ~isRecording
  /\ Len(recordedSteps) >= 2
  /\ recordingTabId \in openTabs

\* ---------------------------------------------------------------------- C2
\* C2 (Single-tab binding): every click/change step of recordedSteps was
\* produced by a report of the tab recordingTabId, and a report of any other
\* tab changes neither recordedSteps nor lastActionTimestamp and sends no
\* message to the side panel.
StepsFromBoundTab ==
  \A i \in 1..Len(recordedSteps) :
    IsAction(recordedSteps[i]) => origin[i] = recordingTabId

OtherTabDiscarded ==
  \A tab \in Tabs, r \in Reports :
    (tab # recordingTabId /\ OnRecordAction(tab, r.frameId, r.action))
      => /\ UNCHANGED << recordedSteps, lastActionTimestamp >>
         /\ sent' = <<>>

SingleTabBinding == []StepsFromBoundTab /\ [][OtherTabDiscarded]_vars

\* While recording, with a step of the bound tab already recorded, a report
\* of the other tab was handled and discarded.
SingleTabBindingWitness ==
  /\ ev.op = "recordAction" /\ ~ev.hit
  /\ isRecording
  /\ \E i \in 1..Len(recordedSteps) : IsAction(recordedSteps[i])
  /\ openTabs = Tabs

\* ---------------------------------------------------------------------- C3
\* C3 (Append-only session): while isRecording is set, recordedSteps[1] is a
\* goto, and a turn that starts and ends with isRecording set (no save, no
\* cancel) changes recordedSteps only by adding steps at its end.
GotoFirst ==
  isRecording => (recordedSteps # <<>> /\ recordedSteps[1].type = "goto")

AppendOnly ==
  (isRecording /\ isRecording') => Extends(recordedSteps', recordedSteps)

AppendOnlySession == []GotoFirst /\ [][AppendOnly]_vars

\* ---------------------------------------------------------------------- C4
\* C4 (Singleton recording): while a session is recording, no turn of
\* handleStartRecording (the request, or its continuation after the tab
\* query) rebinds recordingTabId, re-initialises recordedSteps or re-stamps
\* lastActionTimestamp.
SingletonRecording ==
  [][ (isRecording /\ ev'.op \in {"start", "startDone"})
        => UNCHANGED << recordingTabId, recordedSteps, lastActionTimestamp >> ]_vars

\* ---------------------------------------------------------------------- C5
\* C5 (Session lifecycle): a resetState() that destroys a session (ev.hit)
\* was scheduled by a cancel or a save handled in that very session
\* (ev.sess), never by one handled before the session was started.
SessionLifecycle ==
  (ev.op \in {"timerReset", "saveDone"} /\ ev.hit) => ev.sess = epoch

\* ---------------------------------------------------------------------- C6
\* C6 (Wait synthesis): when a report is accepted at t1 and the report
\* accepted before it into the same recordedSteps was accepted at t0, then
\* the earlier report's action step is the last step, and the turn appends
\* exactly a wait of duration t1 - t0 followed by the new action step if
\* t1 - t0 > 100, and exactly the new action step if t1 - t0 <= 100.
WaitBetweenReports ==
  (ev'.op = "recordAction" /\ ev'.hit /\ lastReportAt # 0) =>
    LET t0 == lastReportAt
        t1 == now'
        n  == Len(recordedSteps)
    IN  /\ n >= 1 /\ IsAction(recordedSteps[n])
        /\ Extends(recordedSteps', recordedSteps)
        /\ IF t1 - t0 > 100
             THEN /\ Len(recordedSteps') = n + 2
                  /\ recordedSteps'[n + 1] = [type |-> "wait", duration |-> t1 - t0]
                  /\ IsAction(recordedSteps'[n + 2])
             ELSE /\ Len(recordedSteps') = n + 1
                  /\ IsAction(recordedSteps'[n + 1])

WaitSynthesis == [][WaitBetweenReports]_vars

\* Two reports accepted 101 ms apart: action, wait of 101, action.
WaitSynthesisWitness ==
  /\ ev.op = "recordAction" /\ ev.hit
  /\ Len(recordedSteps) = 4
  /\ IsAction(recordedSteps[2])
  /\ recordedSteps[3] = [type |-> "wait", duration |-> 101]
  /\ IsAction(recordedSteps[4])

\* ---------------------------------------------------------------------- C7
\* C7 (Cancel flips the flag first): the turn that handles a cancel while
\* recording (the cancelRecording request, or the closure of the bound tab)
\* clears isRecording, leaves recordedSteps and recordingTabId as they were
\* and schedules one reset; after it, recordedSteps is eventually empty and
\* recordingTabId unbound.
CancelHandled == ev.op \in {"cancel", "tabRemoved"} /\ ev.hit

CancelStep ==
  CancelHandled' =>
    /\ isRecording /\ ~isRecording'
    /\ recordedSteps' = recordedSteps
    /\ recordingTabId' = recordingTabId
    /\ Len(timers') = Len(timers) + 1

SessionCleared ==
  ~isRecording /\ recordedSteps = <<>> /\ recordingTabId = NoTab

CancelFlipsFirst ==
  [][CancelStep]_vars /\ (CancelHandled ~> SessionCleared)

\* Right after a cancel: the flag is off, two steps and the tab binding are
\* still there, the reset is pending.
CancelFlipsFirstWitness ==
  /\ CancelHandled
  /\ ~isRecording
  /\ Len(recordedSteps) >= 2
  /\ recordingTabId # NoTab
  /\ timers # <<>>

\* ---------------------------------------------------------------------- C8
\* C8 (Cancel never persists): a save never hands the steps of a cancelled
\* session to the Flow Store: in the turn that calls chrome.storage.local.set
\* either isRecording is still set or recordedSteps is already cleared.
\* (isRecording false with steps still held is the state cancel leaves.)
CancelNeverPersists ==
  ~ /\ ev.op = "saveSet"
    /\ ~isRecording
    /\ recordedSteps # <<>>

\* ---------------------------------------------------------------------- C9
\* C9 (Save when not Recording is a no-op): a stopRecordingAndSave request
\* handled while isRecording is false changes neither the session nor the
\* Flow Store, starts no store operation and sends no message.
SaveWhenIdleNoOp ==
  [][ (ev'.op = "save" /\ ~isRecording)
        => /\ UNCHANGED << session, flows, saves >>
           /\ sent' = <<>> ]_vars

\* A save request was handled and dropped after a cancel, while the
\* cancelled session's steps were still held.
SaveWhenIdleNoOpWitness ==
  /\ ev.op = "save" /\ ~ev.hit
  /\ ~isRecording
  /\ Len(recordedSteps) >= 2
  /\ saves = {}

\* --------------------------------------------------------------------- C10
\* C10 (Save overwrites and resets): the turn that ends a save (resetState
\* after the store write) starts with the Flow Store mapping the save's name
\* to exactly the session's steps, and ends with isRecording false and
\* recordedSteps empty.
SaveEnds ==
  \A p \in saves :
    SaveDone(p) =>
      /\ p.name \in DOMAIN flows /\ flows[p.name] = recordedSteps
      /\ ~isRecording' /\ recordedSteps' = <<>>

SaveOverwritesAndResets == [][SaveEnds]_vars

\* --------------------------------------------------------------------- C11
\* C11 (Tab closure auto-cancels): the closure of the tab recordingTabId
\* while isRecording is set clears the flag in that turn and schedules the
\* reset, which eventually clears the session; no save hands the steps of a
\* session whose tab is gone to the Flow Store; the closure of any other tab
\* leaves the session and the pending resets as they were.
ClosureStep ==
  \A tab \in Tabs :
    TabRemoved(tab) =>
      IF tab = recordingTabId /\ isRecording
        THEN /\ ~isRecording'
             /\ Len(timers') = Len(timers) + 1
             /\ UNCHANGED << recordedSteps, recordingTabId >>
        ELSE UNCHANGED << session, timers >>

ClosureHandled == ev.op = "tabRemoved" /\ ev.hit

ClosedSessionNotPersisted ==
  ~ /\ ev.op = "saveSet"
    /\ recordedSteps # <<>>
    /\ recordingTabId # NoTab
    /\ recordingTabId \notin openTabs

TabClosureCancels ==
  /\ [][ClosureStep]_vars
  /\ []ClosedSessionNotPersisted
  /\ (ClosureHandled ~> SessionCleared)

\* --------------------------------------------------------------------- C12
\* C12 (Reset notifies the UI): every turn that runs resetState (after a
\* save's store write, or from the timer a cancel scheduled), and every turn
\* in which a session ceases to exist, sends recordingStateChanged with
\* isRecording = false and steps = [] to the side panel; and a cancelled
\* session (flag cleared, steps still held) is eventually followed by that
\* message.
IdleNotified ==
  \E i \in 1..Len(sent) : sent[i] = StateChanged(FALSE, <<>>)

ResetStep ==
  (ev'.op \in {"timerReset", "saveDone"} \/ (Live /\ ~Live')) => IdleNotified'

SessionCancelled == ~isRecording /\ recordedSteps # <<>>

ResetNotifiesUI ==
  /\ [][ResetStep]_vars
  /\ (SessionCancelled ~> IdleNotified)

\* The timer of a cancel has just reset a live session that no save was
\* requested for: the message is in the output of that turn.
ResetNotifiesUIWitness ==
  /\ ev.op = "timerReset" /\ ev.hit
  /\ IdleNotified
  /\ recordedSteps = <<>>
  /\ nSave = 0

\* --------------------------------------------------------------------- C13
\* C13 (Live update per accepted action): the turn that handles a report of
\* the bound tab while recording sends exactly one message, an
\* updateLiveSteps whose steps are the whole of recordedSteps as the turn
\* leaves it, the reported action being its last step; the turn that handles
\* any other report sends no updateLiveSteps.
LiveUpdates(msgs) ==
  { i \in 1..Len(msgs) : msgs[i].type = "updateLiveSteps" }

LiveUpdateStep ==
  \A tab \in Tabs, r \in Reports :
    OnRecordAction(tab, r.frameId, r.action) =>
      IF isRecording /\ tab = recordingTabId
        THEN /\ Len(sent') = 1
             /\ sent'[1].type = "updateLiveSteps"
             /\ sent'[1].steps = recordedSteps'
             /\ Len(recordedSteps') > Len(recordedSteps)
             /\ recordedSteps'[Len(recordedSteps')].type = r.action.type
             /\ recordedSteps'[Len(recordedSteps')].selector = r.action.selector
        ELSE LiveUpdates(sent') = {}

LiveUpdatePerAction == [][LiveUpdateStep]_vars

\* A report was accepted 101 ms after the one before it: the message holds
\* the goto, the first action, the wait and the action just appended.
LiveUpdatePerActionWitness ==
  /\ ev.op = "recordAction" /\ ev.hit
  /\ Len(recordedSteps) = 4
  /\ recordedSteps[3].type = "wait"
  /\ sent = << LiveSteps(recordedSteps) >>

\* --------------------------------------------------------------------- C14
\* C14 (Step frame tagging): the step appended for an accepted report is the
\* reported action with frameId set to the frame of the sender: its other
\* fields are those of the action, and its frameId is the sender's also when
\* the action object came with a frameId field of its own.
FrameTagStep ==
  \A tab \in Tabs, r \in FramedReports :
    (Accepts(tab) /\ OnRecordAction(tab, r.frameId, r.action)) =>
      LET step == recordedSteps'[Len(recordedSteps')]
      IN  /\ Len(recordedSteps') > Len(recordedSteps)
          /\ IsAction(step)
          /\ step.frameId = r.frameId
          /\ \A k \in DOMAIN r.action \ {"frameId"} : step[k] = r.action[k]
          /\ DOMAIN step = DOMAIN r.action \cup {"frameId"}

StepFrameTagging == [][FrameTagStep]_vars

\* The click that came with frameId 7 was reported by the observer of frame
\* 2 and recorded, after a change reported by frame 0.
StepFrameTaggingWitness ==
  /\ ev.op = "recordAction" /\ ev.hit
  /\ Len(recordedSteps) = 3
  /\ recordedSteps[2].type = "change" /\ recordedSteps[2].frameId = 0
  /\ recordedSteps[3].selector = "#framed" /\ recordedSteps[3].frameId = 2

\* --------------------------------------------------------------------- C15
\* The flow a run was asked for is absent, empty, or does not start with a
\* goto; the request has been handled up to its tests.
BadFlowRun ==
  /\ pc \notin {"idle", "load"}
  /\ \/ runName \notin DOMAIN flows
     \/ flows[runName] = <<>>
     \/ flows[runName][1].type # "goto"

NothingStarted ==
  /\ pc = "returned"
  /\ runTab = "none" /\ ~listener
  /\ executions = 0 /\ executors = {}
  /\ dispatched = <<>>

InArrayOrder ==
  /\ \A j \in 1..Len(dispatched) : dispatched[j] = j + 1
  /\ Len(dispatched) < Len(flowSteps) \/ dispatched = <<>>
  /\ (pc = "alertDone" /\ flowSteps # <<>>) =>
        Len(dispatched) = Len(flowSteps) - 1

OneAtATime ==
  dispatched' # dispatched =>
    /\ Len(dispatched') = Len(dispatched) + 1
    /\ \/ pc = "inject" /\ dispatched = <<>>
       \/ pc = "wait" /\ flowSteps[stepIndex].type = "wait"
       \/ pc = "pause" /\ flowSteps[stepIndex].type # "wait"
    /\ pc' \in {"wait", "send"}

LinearReplay == []InArrayOrder /\ [][OneAtATime]_vars

\* The click, the wait and the change of the stored flow were taken in that
\* order and the loop is over.
LinearReplayWitness ==
  /\ pc = "alertDone"
  /\ dispatched = << 2, 3, 4 >>
  /\ flowSteps[2].type = "click" /\ flowSteps[3].type = "wait"
  /\ flowSteps[4].type = "change"

\* --------------------------------------------------------------------- C17
\* A step of the run has failed: the catch of the loop has run.
StepFailed == errorMessage # ""

RunOver == pc \in {"returned", "crashed"}

Shown(kind) == { j \in 1..Len(alerts) : alerts[j].kind = kind }

\* C17 (Abort-on-failure): once step k has failed (the executor replied
\* error, or no executor could be reached in the tab), k stays the last step
\* the loop has taken, no success is shown, at most one failure is shown, and
\* when the run is over exactly one failure has been shown to the user.
AbortOnFailure ==
  StepFailed =>
    /\ dispatched # <<>> /\ dispatched[Len(dispatched)] = stepIndex
    /\ pc \in {"alertFail", "returned", "crashed"}
    /\ Shown("success") = {}
    /\ Cardinality(Shown("failure")) <= 1
    /\ RunOver => Cardinality(Shown("failure")) = 1

\* --------------------------------------------------------------------- C18
\* C18 (Failure report content): every failure alert shown to the user
\* carries the serialized failing step and the message of the error caught.
FailureReportContent ==
  \A j \in Shown("failure") :
    /\ alerts[j].step = JSONstringify(flowSteps[stepIndex])
    /\ alerts[j].reason = errorMessage

\* --------------------------------------------------------------------- C19
\* Every step after the first was taken and none failed.
AllStepsCompleted ==
  /\ flowSteps # <<>>
  /\ stepIndex > Len(flowSteps)
  /\ ~StepFailed

LaterSignalIgnored ==
  (executions >= 1 /\ TabUpdated(TRUE, "complete")) =>
    UNCHANGED << pc, stepIndex, dispatched, executions, listener, alerts >>

SingleShotLoadWait ==
  /\ [](executions <= 1 /\ (executions = 1 => ~listener))
  /\ [][LaterSignalIgnored]_vars

\* While the loop awaits the reply to a step, the tab has navigated and
\* loaded a second document, in which nothing was injected.
SingleShotLoadWaitWitness ==
  /\ executions = 1
  /\ pc = "send" /\ stepIndex = 4
  /\ runTab = "complete"
  /\ executors = {}

\* --------------------------------------------------------------------- C21
\* C21 (Stabilization delay): the timer the run awaits after the success
\* reply to a click or change step is one of 500 ms, and the next step is
\* taken (or the loop left) only by the turn that ends it; the timer awaited
\* for a wait step is one of exactly the step's duration, and the turn that
\* ends it goes on to the next step with no pause in between.
DelaysAsRecorded ==
  /\ pc = "pause" =>
       (flowSteps[stepIndex].type \in ActionTypes /\ delayMs = 500)
  /\ pc = "wait" =>
       (flowSteps[stepIndex].type = "wait"
          /\ delayMs = flowSteps[stepIndex].duration)

DelayStep ==
  /\ (pc = "send" /\ pc' # "send") => pc' \in {"pause", "alertFail"}
  /\ (pc = "wait" /\ pc' # "wait") => pc' \in {"send", "wait", "alertDone"}
  /\ (pc = "wait" /\ pc' = "wait") => stepIndex' = stepIndex \/ stepIndex' = stepIndex + 1
  /\ (stepIndex' # stepIndex /\ stepIndex # 0) =>
        \/ pc = "wait" /\ delayMs = flowSteps[stepIndex].duration
        \/ pc = "pause" /\ delayMs = 500

StabilizationDelay == []DelaysAsRecorded /\ [][DelayStep]_vars

\* The wait of 150 ms has elapsed, the change after it was dispatched at
\* once and has succeeded: the run is in the 500 ms pause after it.
StabilizationDelayWitness ==
  /\ pc = "pause" /\ delayMs = 500
  /\ stepIndex = 4 /\ flowSteps[3] = WaitStep(150)
  /\ dispatched = << 2, 3, 4 >>

\* --------------------------------------------------------------------- C22
\* The frame a step names: its frameId, frame 0 when it has none.
FrameOf(step) == IF "frameId" \in DOMAIN step THEN step.frameId ELSE 0

\* C22 (Frame-targeted dispatch): every executeSingleStep message of a run
\* that is delivered is a Click/Change step and reaches exactly one frame,
\* the frame of the run's tab whose id is the step's frameId (frame 0 when
\* the step has none), and no other frame or tab; each dispatched step is
\* delivered at most once.
FrameTargetedDispatch ==
  /\ \A j \in 1..Len(delivered) :
        LET d == delivered[j]
        IN  /\ d.index \in FirstIndex..Len(flowSteps)
            /\ flowSteps[d.index].type \in ActionTypes
            /\ d.to = { << RunTabId, FrameOf(flowSteps[d.index]) >> }
  /\ \A j, k \in 1..Len(delivered) :
        delivered[j].index = delivered[k].index => j = k

\* The click was delivered to frame 0 and the change to frame 2 of the
\* run's tab, which holds executors in both frames.
FrameTargetedDispatchWitness ==
  /\ executors = {0, 2}
  /\ Len(delivered) = 2
  /\ delivered[1] = [index |-> 2, to |-> { << RunTabId, 0 >> }]
  /\ delivered[2] = [index |-> 4, to |-> { << RunTabId, 2 >> }]

\* --------------------------------------------------------------------- C23
\* The loop takes a click/change step while the run's tab is open.
DispatchesAction ==
  /\ dispatched' # dispatched
  /\ flowSteps[stepIndex'].type \in ActionTypes
  /\ runTab' # "closed"

\* C23 (Executor present at dispatch): whenever a click/change step of a run
\* is dispatched, a Frame Executor listens in the frame the step names, also
\* after the page navigated or the frame was created after the initial load.
ExecutorPresentAtDispatch ==
  [][DispatchesAction => FrameOf(flowSteps[stepIndex']) \in executors']_vars

\* --------------------------------------------------------------------- C24
\* C24 (Probe before inject): a call of the injection procedure that has
\* ended after an acknowledged ping has injected nothing, and one that has
\* ended after a ping without acknowledgement (an error, or a reply that is
\* not the acknowledgement) has injected the agent exactly once.
ProbeBeforeInject ==
  \A p \in Procs :
    ppc[p] = "done" =>
      /\ reply[p] = "pong" => injected[p] = 0
      /\ reply[p] \in {"error", "silent"} => injected[p] = 1

\* --------------------------------------------------------------------- C25
\* C25 (Observer liveness probe): a ping that reaches a frame whose observer
\* is active is answered with the pong, whichever observer it is.
ObserverAnswersPing ==
  [][\A p \in Procs :
       (ppc[p] = "probing" /\ ppc'[p] # "probing" /\ listenerSets > 0)
         => reply'[p] = "pong"]_vars

\* --------------------------------------------------------------------- C26
\* A click of the user in a document in which the observer script has run.
ObservedClick == clicks' # clicks /\ instantiations >= 1

\* C26 (One observer per frame): however often the observer script was
\* instantiated in a document, also by two raced calls of the injection
\* procedure, exactly one set of listeners is active in it, and one click
\* of the user produces exactly one report.
OneObserverPerFrame ==
  /\ [](instantiations >= 1 => listenerSets = 1)
  /\ [][ObservedClick => clickReports' = clickReports + 1]_vars

\* Both calls found no observer and both injected; the click after the
\* second instantiation was reported once.
OneObserverPerFrameWitness ==
  /\ instantiations = 2
  /\ \A p \in Procs : ppc[p] = "done" /\ injected[p] = 1
  /\ listenerSets = 1
  /\ clicks = 1 /\ clickReports = 1

\* ------------------------------------------------------------- C27 .. C29
\* The actions handed to sendMessage in this step.
NewReports == SubSeq(outbox', Len(outbox) + 1, Len(outbox'))

\* The change reports among them.
ChangesIn(reports) == SelectSeq(reports, LAMBDA r : r.type = "change")

\* The value of the last change report sent for element e, Undefined when
\* there is none.
LastReported(e) ==
  LET sent_e == { i \in 1..Len(outbox) : outbox[i] \in { ChangeOf(e, v) : v \in Values } }
  IN  IF sent_e = {} THEN Undefined
      ELSE outbox[CHOOSE i \in sent_e : \A j \in sent_e : j <= i].value

\* --------------------------------------------------------------------- C27
\* C27 (Coalescing): when an element that got one or more edits loses the
\* focus, exactly one change report is sent, with the element's final value;
\* no change report is sent at any other moment, so that no intermediate
\* value is reported and the final one is reported once.
CoalescingStep ==
  /\ (focus \in Editables /\ focus' # focus /\ edits >= 1) =>
        ChangesIn(NewReports) = << ChangeOf(focus, elValue[focus]) >>
  /\ focus' = focus => ChangesIn(NewReports) = << >>

Coalescing == [][CoalescingStep]_vars

\* --------------------------------------------------------------------- C28
\* The observer of part_003 handles a pointer-down on t in this step.
PointerDown(t) ==
  /\ observer = "part_003"
  /\ \E i \in 1..Len(NewReports) : NewReports[i] = ClickOn(t)

\* The pointer goes down on t while another, editable element has the focus.
Away(t) == focus \in Editables /\ focus # t

\* C28 as stated (Flush before click): a pointer-down on a target other than
\* the focused editable element sends that element's change report and then
\* the click report; on the focused element itself it sends only the click.
FlushBeforeClick ==
  [][\A t \in Targets :
       PointerDown(t) =>
         NewReports = IF Away(t)
                        THEN << ChangeOf(focus, elValue[focus]), ClickOn(t) >>
                        ELSE << ClickOn(t) >>]_vars

\* C28 (Flush before click), amended: a pointer-down on a target other than
\* the focused editable element sends that element's change report and then
\* the click report, unless the element's value is the value last reported
\* for it, when only the click is sent; a pointer-down on the focused element
\* itself, or with no editable element focused, sends only the click.
FlushChangedBeforeClick ==
  [][\A t \in Targets :
       PointerDown(t) =>
         NewReports =
           IF Away(t) /\ elValue[focus] # LastReported(focus)
             THEN << ChangeOf(focus, elValue[focus]), ClickOn(t) >>
             ELSE << ClickOn(t) >>]_vars

\* After two edits of #a the pointer went down on the button: the change
\* with the final value was sent, then the click.
FlushChangedBeforeClickWitness ==
  /\ observer = "part_003"
  /\ elValue["#a"] = "Ad"
  /\ outbox = << ChangeOf("#a", "Ad"), ClickOn(Button) >>
  /\ focus = "none"

\* --------------------------------------------------------------------- C29
\* Between two change reports for the same element with the same value
\* another change report for that element was sent.
NoRepeatedChange ==
  \A i, j \in 1..Len(outbox) :
    ( /\ i < j
      /\ outbox[i].type = "change"
      /\ outbox[j] = outbox[i] )
    => \E k \in (i + 1)..(j - 1) :
         /\ outbox[k].type = "change"
         /\ outbox[k].selector = outbox[i].selector

\* The observer of part_003 flushes the focused element in this step.
Flushes == observer = "part_003" /\ flushes' = flushes + 1

\* C29 (No duplicate Change): a flush of an element sends a change report
\* exactly if the element's value differs from the value last reported for
\* that same element, whatever was reported for other elements; so two
\* flushes in a row of an unchanged value send one report.
NoDuplicateChange ==
  /\ [](observer = "part_003" => NoRepeatedChange)
  /\ [][Flushes =>
          ChangesIn(NewReports) =
            IF elValue[focus] # LastReported(focus)
              THEN << ChangeOf(focus, elValue[focus]) >>
              ELSE << >>]_vars

\* #a was flushed twice with the value "A": one change report, two clicks.
NoDuplicateChangeWitness ==
  /\ observer = "part_003"
  /\ flushes = 2
  /\ elValue["#a"] = "A"
  /\ outbox = << ChangeOf("#a", "A"), ClickOn(Button), ClickOn(Button) >>

\* --------------------------------------------------------------------- C30
\* The promise of waitForElement is settled.
Ended == outcome \in {"element", ElementMissing}

\* No poll occurs before the call or after the outcome.
PollsWhilePending == polls' # polls => outcome = "pending"

PollDecides ==
  polls' # polls =>
    outcome' = IF present THEN "element"
               ELSE IF elapsed' > Timeout THEN ElementMissing
               ELSE "pending"

EventTypes == [i \in 1..Len(events) |-> events[i].type]

\* A change step has been executed on the element the selector resolved to.
ChangeExecuted ==
  execStep.type = "change" /\ outcome = "element" /\ execResult # "none"

\* C31 (Change execution): a change step on a resolved element assigns the
\* value when the element has a value property, assigns the text content
\* when it has none and is content-editable, and otherwise fails with the
\* unsupported-target error, assigning and dispatching nothing; after a
\* successful assignment exactly input, change and blur are dispatched, in
\* this order, each on the element as assigned.
ChangeExecution ==
  /\ execResult = "none" =>
       events = << >> /\ el \in Elements
  /\ ChangeExecuted =>
       IF el.value # Undefined
         THEN /\ execResult = "success"
              /\ el.value = execStep.value /\ el.innerText = OldContent
              /\ EventTypes = << "input", "change", "blur" >>
              /\ \A i \in 1..Len(events) : events[i].target = el
         ELSE IF el.isContentEditable
           THEN /\ execResult = "success"
                /\ el.innerText = execStep.value
                /\ EventTypes = << "input", "change", "blur" >>
                /\ \A i \in 1..Len(events) : events[i].target = el
           ELSE /\ execResult = UnsupportedTarget
                /\ el.innerText = OldContent
                /\ events = << >>

\* The text of a content-editable element without value property was set
\* to "Ada" and the three events were dispatched.
ChangeExecutionWitness ==
  /\ ChangeExecuted
  /\ el = [value |-> Undefined, isContentEditable |-> TRUE, innerText |-> "Ada"]
  /\ Len(events) = 3
  /\ execResult = "success"

\* --------------------------------------------------------------------- C32
\* The delete p hands its mapping to the store in this step, and the store
\* still holds what p had read.
DeleteWrites(p) ==
  /\ p.pc = "set"
  /\ [p EXCEPT !.pc = "stored"] \in deletes'
  /\ flows = p.read

\* C32 (Delete of an absent flow): a delete of a name the Flow Store does
\* not hold leaves the store as it is; a delete of a stored name removes
\* that name and keeps every other flow with its steps.
DeleteExact ==
  [][\A p \in deletes :
       DeleteWrites(p) =>
         /\ DOMAIN flows' = DOMAIN flows \ {p.name}
         /\ \A n \in DOMAIN flows' : flows'[n] = flows[n]
         /\ p.name \notin DOMAIN flows => flows' = flows]_vars

\* f2, which the store did not hold, was deleted and f1 was still stored;
\* then f1 was deleted.
DeleteExactWitness ==
  /\ storeLog = << [op |-> "delete", name |-> "f2"],
                   [op |-> "delete", name |-> "f1"] >>
  /\ flows = EmptyFlows
  /\ deletes = {} /\ saves = {}

\* --------------------------------------------------------------------- C34
\* The store operations that have ended on a name no other ended operation
\* was on.
OnOwnName ==
  { i \in 1..Len(storeLog) :
      \A j \in 1..Len(storeLog) : storeLog[j].name = storeLog[i].name => j = i }

\* C34 (Store updates are not lost): once a save and the other store
\* operations, on different names, have all ended, the Flow Store reflects
\* each of them: a saved name maps to the steps saved, a deleted name is
\* absent.
StoreUpdatesNotLost ==
  ( /\ saves = {} /\ deletes = {}
    /\ \E i \in 1..Len(storeLog) : storeLog[i].op = "save" )
  => \A i \in OnOwnName :
       IF storeLog[i].op = "save"
         THEN /\ storeLog[i].name \in DOMAIN flows
              /\ flows[storeLog[i].name] = storeLog[i].steps
         ELSE storeLog[i].name \notin DOMAIN flows

\* ------------------------------------------------------------------ C33
\* The target has an id that no other element of the document has.
UniqueId ==
  /\ IdOf(doc, target) # << >>
  /\ \A i \in 1..Len(doc) : i # target => IdOf(doc, i) # IdOf(doc, target)

\* getSelector has returned.
Resolved == branch # "none"

\* C33 as stated: for an element with a document-unique id, at any depth
\* and with any number of siblings, getSelector returns '#' followed by that
\* id and leaves by neither the attribute nor the positional-path branch.
SelectorIsHashId ==
  (Resolved /\ UniqueId) =>
     /\ selector = << IdTok(IdOf(doc, target)) >>
     /\ branch = "id"

\* C33, amended: for an element with a document-unique id, at any depth and
\* with any number of siblings, getSelector returns '#' followed by
\* CSS.escape(id), which is the id itself when it has no character that
\* CSS.escape changes, and leaves by the id branch.
SelectorIsHashEscapedId ==
  (Resolved /\ UniqueId) =>
     /\ selector = << IdTok(CSSescape(IdOf(doc, target))) >>
     /\ (\A j \in 1..Len(IdOf(doc, target)) :
            IdOf(doc, target)[j] \notin Special)
          => selector = << IdTok(IdOf(doc, target)) >>
     /\ branch = "id"

\* A nested element with a previous sibling of its tag, a unique name and a
\* unique id that needs escaping has been resolved.
SelectorIsHashEscapedIdWitness ==
  /\ Resolved
  /\ UniqueId
  /\ target > 1
  /\ doc[target].parent # Body
  /\ NthOfType(doc, target) > 1
  /\ IdOf(doc, target) = << "a", "." >>
  /\ NameOf(doc, target) # << >>
  /\ Cardinality(querySelectorAll(doc, AttrSelector(doc, target))) = 1

\* ------------------------------------------------------------------ C38
\* C38: for every element under body, also in documents where ids or
\* attribute values are shared, querySelector(getSelector(element)) on the
\* unchanged document is that element.
SelectorRoundTrip ==
  found # << >> => found = << target >>

\* ------------------------------------------------------------------ C35
\* C35 (Saved flow equals the live list): a list of steps shown to the side
\* panel (updateLiveSteps) while a save of the session has handed its steps
\* to the store or has them written is the list saved under the name: the
\* saved flow is the last list shown for the session, no accepted action is
\* missing from it.
SavedFlowIsLiveList ==
  \A p \in saves :
    \A i \in 1..Len(sent) :
      ( /\ p.pc \in {"set", "stored"}
        /\ p.sess = epoch
        /\ sent[i].type = "updateLiveSteps" )
      => p.savedFlows[p.name] = sent[i].steps

\* ------------------------------------------------------------------ C36
StepTypes == [i \in 1..Len(recordedSteps) |-> recordedSteps[i].type]

\* C36 (Shape of a recorded sequence): whenever recordedSteps is not empty,
\* its first step is a goto and no other step is one, every wait has a
\* duration above 100 ms and is directly followed by a click or a change, so
\* that no wait is last and no two waits are adjacent.
RecordedShape ==
  recordedSteps # <<>> =>
    /\ StepTypes[1] = "goto"
    /\ \A i \in 2..Len(recordedSteps) : StepTypes[i] # "goto"
    /\ \A i \in 1..Len(recordedSteps) :
         StepTypes[i] = "wait" =>
           /\ recordedSteps[i].duration > WaitThreshold
           /\ i < Len(recordedSteps)
           /\ StepTypes[i + 1] \in ActionTypes

\* A sequence with a wait between two recorded actions.
RecordedShapeWitness ==
  /\ Len(recordedSteps) = 4
  /\ StepTypes = << "goto", "click", "wait", "click" >>

\* ------------------------------------------------------------------ C37
\* The run has passed the two tests on the stored flow and has its tab.
RunStarted == pc = "listen"

\* C37 (Every run reports): a run that has passed the preconditions is
\* followed by exactly one report to the user, the success alert or one
\* failure alert, also when its tab is closed before it has loaded or while
\* a step is in flight.
EveryRunReports ==
  /\ [](Len(alerts) <= 1)
  /\ (RunStarted ~> (Len(alerts) = 1))

====
